---- MODULE Spec2Model ----
(***************************************************************************)
(* Portfolio valuation engine of asset_manager: the FIFO position replay   *)
(* (services/portfolio_engine.py), the dividend replay                     *)
(* (services/dividend_service.py), the FX resolver                         *)
(* (services/fx_service.py, models/fx_rate.py) and the transaction store   *)
(* (models/transaction.py).                                                *)
(*                                                                         *)
(* Quantities, prices and rates are exact integers.  Quantities are whole  *)
(* multiples of a unit far larger than the engine's 1e-9 tolerance, so the *)
(* tolerance is 0 on this grid (Eps).                                      *)
(***************************************************************************)
EXTENDS Integers, Sequences, FiniteSets, TLC

VARIABLES
    txns,           \* compute_position: the transactions replayed so far
    position,       \* compute_position: the TickerPosition being built
    fx_source,      \* external FX quote source: the days it has a close for
    fx_rate_cache,  \* table fx_rate_cache: (date, from, to) -> rate
    fx_call,        \* the last FX resolver call and what it returned
    fx_calls,       \* number of FX resolver calls made
    div_input,      \* calculate_dividends_received: the arguments of the call
    div_result,     \* calculate_dividends_received: (total, records) returned
    db_transactions, \* table transactions: the set of rows
    next_id,        \* the id AUTOINCREMENT gives the next inserted row
    portfolio,      \* the last compute_portfolio call and the list it returned
    live_call,      \* the last get_live_fx_rate call and what it returned
    now,            \* the clock, in seconds (UTC)
    utc_offset,     \* local time minus UTC on this machine, in seconds
    updated_at,     \* column transactions.updated_at: row id -> timestamp
    session_state,  \* st.session_state: key -> value
    cached_call,    \* the last get_cached_portfolio call and how it ended
    price_source,   \* external price source: the days it has a close for
    perf_call,      \* the last performance_engine call and what it returned
    bench_call      \* the benchmark calls of the page and what they returned

replayVars == <<txns, position>>

fxVars == <<fx_source, fx_rate_cache, fx_call, fx_calls>>

divVars == <<div_input, div_result>>

dbVars == <<db_transactions, next_id, portfolio>>

liveVars == <<live_call>>

timeVars == <<now, utc_offset>>

sessionVars == <<updated_at, session_state, cached_call>>

perfVars == <<price_source, perf_call, bench_call>>

vars == <<replayVars, fxVars, divVars, dbVars, liveVars, timeVars, sessionVars,
          perfVars>>

(***************************************************************************)
(* Bounds and input domains                                                *)
(***************************************************************************)
MaxTxns == 3
MaxDate == 2
MaxFxCalls == 2
MaxDivTxns == 3
MaxId == 3

Dates == 1..MaxDate
Quantities == {10, 15}
Prices == {100, 200, 250}
FxRates == {1, 2}
Sides == {"BUY", "SELL"}

\* the 1e-9 tolerance of the sell loop, on the integer quantity grid
Eps == 0

Min(a, b) == IF a <= b THEN a ELSE b

(***************************************************************************)
(* services/portfolio_engine.py : Lot, ClosedLot, TickerPosition           *)
(***************************************************************************)
\* a transaction as compute_position reads it (currency and broker are
\* carried through unchanged and take no part in any computation)
TxnInputs ==
    [date : Dates, side : Sides, price : Prices, quantity : Quantities,
     effective_fx_rate : FxRates]

\* Lot(...) as built for a BUY
LotMut(txn) ==
    [date |-> txn.date, quantity |-> 2 * txn.quantity,
     price_native |-> txn.price, fx_rate_to_sgd |-> txn.effective_fx_rate]

Lot(txn) ==
    [date |-> txn.date, quantity |-> txn.quantity,
     price_native |-> txn.price, fx_rate_to_sgd |-> txn.effective_fx_rate]

ClosedLotMut(oldest, qty, txn) ==
    [buy_date |-> oldest.date, sell_date |-> txn.date, quantity |-> qty,
     buy_price_native |-> txn.price, sell_price_native |-> txn.price,
     buy_fx_rate |-> oldest.fx_rate_to_sgd,
     sell_fx_rate |-> txn.effective_fx_rate]

\* ClosedLot(...) as built when qty shares of the lot `oldest` are sold by txn
ClosedLot(oldest, qty, txn) ==
    [buy_date |-> oldest.date, sell_date |-> txn.date, quantity |-> qty,
     buy_price_native |-> oldest.price_native, sell_price_native |-> txn.price,
     buy_fx_rate |-> oldest.fx_rate_to_sgd,
     sell_fx_rate |-> txn.effective_fx_rate]

\* Lot.cost_per_share_sgd, Lot.total_cost_sgd
cost_per_share_sgd(lot) == lot.price_native * lot.fx_rate_to_sgd

total_cost_sgd(lot) == lot.quantity * cost_per_share_sgd(lot)

\* ClosedLot.cost_sgd, proceeds_sgd, realized_pnl_sgd
cost_sgd(cl) == cl.quantity * cl.buy_price_native * cl.buy_fx_rate

proceeds_sgd(cl) == cl.quantity * cl.sell_price_native * cl.sell_fx_rate

closed_realized_pnl_sgd(cl) == proceeds_sgd(cl) - cost_sgd(cl)

RECURSIVE SumSeq(_, _)
\* sum(f(x) for x in s), f given as a function over the elements of s
SumSeq(s, f) ==
    IF s = <<>> THEN 0 ELSE f[Head(s)] + SumSeq(Tail(s), f)

Range(s) == {s[i] : i \in DOMAIN s}

\* TickerPosition.shares
shares(pos) ==
    SumSeq(pos.open_lots, [l \in Range(pos.open_lots) |-> l.quantity])

\* total_cost of TickerPosition.cost_basis_per_share_native: the remaining
\* open cost basis in native currency
open_cost_native(pos) ==
    SumSeq(pos.open_lots,
           [l \in Range(pos.open_lots) |-> l.quantity * l.price_native])

\* TickerPosition.total_investment_sgd
total_investment_sgd(pos) ==
    SumSeq(pos.open_lots, [l \in Range(pos.open_lots) |-> total_cost_sgd(l)])

\* TickerPosition.realized_pnl_from_trades_sgd
realized_pnl_from_trades_sgd(pos) ==
    SumSeq(pos.closed_lots,
           [c \in Range(pos.closed_lots) |-> closed_realized_pnl_sgd(c)])

\* TickerPosition.realized_pnl_sgd
realized_pnl_sgd(pos) ==
    realized_pnl_from_trades_sgd(pos) + pos.dividends_net_sgd

\* TickerPosition.current_value_sgd
current_value_sgd(pos) == shares(pos) * pos.live_price * pos.live_fx_rate

\* TickerPosition.unrealized_pnl_sgd
unrealized_pnl_sgd(pos) ==
    IF shares(pos) = 0 THEN 0
    ELSE current_value_sgd(pos) - total_investment_sgd(pos)

\* TickerPosition(ticker, name, currency, country) with its field defaults
EmptyPosition ==
    [open_lots |-> <<>>, closed_lots |-> <<>>, dividends_net_sgd |-> 0,
     dividend_records |-> <<>>, live_price |-> 0, live_fx_rate |-> 1]

(***************************************************************************)
(* services/portfolio_engine.py : compute_position                         *)
(***************************************************************************)
\* `oldest.quantity <= remaining + 1e-9`: the whole lot is consumed
LotFits(oldest, remaining) == oldest.quantity <= remaining + Eps

\* `oldest.quantity -= remaining`: the lot left after a partial sale
PartialLotMut(oldest, remaining) ==
    [oldest EXCEPT !.quantity = remaining - @]

PartialLot(oldest, remaining) ==
    [oldest EXCEPT !.quantity = @ - remaining]

RECURSIVE SellLoop(_, _, _)
\* the `while remaining > 1e-9 and position.open_lots` loop of a SELL
SellLoop(pos, remaining, txn) ==
    IF remaining > Eps /\ pos.open_lots # <<>>
    THEN LET oldest == Head(pos.open_lots) IN
         IF LotFits(oldest, remaining)
         THEN SellLoop(
                [pos EXCEPT
                   !.open_lots = Tail(@),
                   !.closed_lots =
                       Append(@, ClosedLot(oldest, oldest.quantity, txn))],
                remaining - oldest.quantity, txn)
         ELSE SellLoop(
                [pos EXCEPT
                   !.open_lots = <<PartialLot(oldest, remaining)>> \o Tail(@),
                   !.closed_lots =
                       Append(@, ClosedLot(oldest, remaining, txn))],
                0, txn)
    ELSE pos

\* one iteration of `for txn in transactions`
ApplyTxnMut(pos, txn) ==
    IF txn.side = "BUY"
    THEN [pos EXCEPT !.open_lots = Append(@, Lot(txn))]
    ELSE IF txn.quantity > shares(pos)
    THEN [SellLoop(pos, txn.quantity, txn) EXCEPT
             !.open_lots = <<[Lot(txn) EXCEPT
                                !.quantity = shares(pos) - txn.quantity]>>]
    ELSE SellLoop(pos, txn.quantity, txn)

ApplyTxn(pos, txn) ==
    IF txn.side = "BUY"
    THEN [pos EXCEPT !.open_lots = Append(@, Lot(txn))]
    ELSE IF txn.side = "SELL"
    THEN SellLoop(pos, txn.quantity, txn)
    ELSE pos

RECURSIVE ReplayFrom(_, _)
ReplayFrom(pos, transactions) ==
    IF transactions = <<>> THEN pos
    ELSE ReplayFrom(ApplyTxn(pos, Head(transactions)), Tail(transactions))

\* compute_position(ticker, name, currency, country, transactions)
compute_position(transactions) == ReplayFrom(EmptyPosition, transactions)

(***************************************************************************)
(* External FX quote source (yfinance) as the resolver sees it             *)
(***************************************************************************)
Currencies == {"SGD", "USD", "JPY"}

\* config.BASE_CURRENCY
BASE_CURRENCY == "SGD"

FxDays == 1..3

\* `end = dt + timedelta(days=5)` and `start2 = dt - timedelta(days=7)`
FetchDaysAhead == 5

FetchDaysBack == 7

\* absence of a value (Python None); every rate is > 0
None == -1

Pairs == {p \in Currencies \X Currencies : p[1] # p[2]}

\* the close the source quotes for a pair on a day it has data for; distinct
\* days and distinct pairs quote distinct closes, and no close is the product
\* of two others
PairBase(from, to) ==
    CASE from = "USD" /\ to = "SGD" -> 10
      [] from = "JPY" /\ to = "USD" -> 20
      [] from = "SGD" /\ to = "USD" -> 30
      [] from = "USD" /\ to = "JPY" -> 40
      [] from = "JPY" /\ to = "SGD" -> 300
      [] from = "SGD" /\ to = "JPY" -> 500

SourceClose(from, to, day) == PairBase(from, to) + day

\* t.history(start, end): the days with a close in [start, end)
History(start, end) == {x \in fx_source : start <= x /\ x < end}

SetMax(S) == CHOOSE x \in S : \A y \in S : y <= x

SetMin(S) == CHOOSE x \in S : \A y \in S : x <= y

(***************************************************************************)
(* models/fx_rate.py : get_cached_rate, store_rate                         *)
(***************************************************************************)
get_cached_rate(cache, date, from, to) ==
    IF <<date, from, to>> \in DOMAIN cache
    THEN cache[<<date, from, to>>] ELSE None

store_rateMut(cache, date, from, to, rate) ==
    [k \in DOMAIN cache \cup {<<date, from, to>>} |->
        IF k = <<date, from, to>> THEN rate + 1 ELSE cache[k]]

\* INSERT OR REPLACE on UNIQUE(date, from_currency, to_currency)
store_rate(cache, date, from, to, rate) ==
    [k \in DOMAIN cache \cup {<<date, from, to>>} |->
        IF k = <<date, from, to>> THEN rate ELSE cache[k]]

(***************************************************************************)
(* services/fx_service.py : _fetch_fx_rate_yfinance, get_fx_rate,          *)
(* prefetch_fx_rates                                                       *)
(***************************************************************************)
\* ok: the pairs the source answers for during the call; a request for any
\* other pair raises and is swallowed by `except Exception`
_fetch_fx_rate_yfinance(from, to, date, ok) ==
    IF <<from, to>> \notin ok THEN None
    ELSE LET first == History(date, date + FetchDaysAhead)
             hist == IF first = {}
                     THEN History(date - FetchDaysBack, date + FetchDaysAhead)
                     ELSE first
             before == {x \in hist : x <= date}
         IN IF hist = {} THEN None
            ELSE IF before # {}
            THEN SourceClose(from, to, SetMax(before))
            ELSE SourceClose(from, to, SetMin(hist))

\* `rate = rate1 * rate2`
triangulated_rateMut(rate1, rate2) == rate1

triangulated_rate(rate1, rate2) == rate1 * rate2

RECURSIVE get_fx_rate(_, _, _, _, _)
\* returns the rate, the cache after the call, the return statement taken
\* (via) and the pairs requested from the source (fetched)
get_fx_rate(cache, from, to, date, ok) ==
    IF from = to
    THEN [rate |-> 1, cache |-> cache, via |-> "same", fetched |-> {}]
    ELSE IF get_cached_rate(cache, date, from, to) # None
    THEN [rate |-> get_cached_rate(cache, date, from, to), cache |-> cache,
          via |-> "cache", fetched |-> {}]
    ELSE LET rate == _fetch_fx_rate_yfinance(from, to, date, ok) IN
         IF rate # None
         THEN [rate |-> rate, cache |-> store_rate(cache, date, from, to, rate),
               via |-> "source", fetched |-> {<<from, to>>}]
         ELSE IF from # "USD" /\ to # "USD"
         THEN LET leg1 == get_fx_rate(cache, from, "USD", date, ok)
                  leg2 == get_fx_rate(leg1.cache, "USD", to, date, ok)
                  asked == {<<from, to>>} \cup leg1.fetched \cup leg2.fetched
              IN IF leg1.rate # 0 /\ leg2.rate # 0
                 THEN [rate |-> triangulated_rate(leg1.rate, leg2.rate),
                       cache |-> store_rate(leg2.cache, date, from, to,
                                    triangulated_rate(leg1.rate, leg2.rate)),
                       via |-> "triangulated", fetched |-> asked]
                 ELSE [rate |-> 1, cache |-> leg2.cache,
                       via |-> "fallback", fetched |-> asked]
         ELSE [rate |-> 1, cache |-> cache, via |-> "fallback",
               fetched |-> {<<from, to>>}]

\* what the live-quote source answers to one request for a pair: the request
\* raises, or fast_info has a lastPrice (None when the key is missing), and
\* history(period="1d") has a last close (None when it is empty)
LiveAnswers ==
    {[raises |-> TRUE, lastPrice |-> None, close |-> None],
     [raises |-> FALSE, lastPrice |-> 2, close |-> None],
     [raises |-> FALSE, lastPrice |-> 0, close |-> 3],
     [raises |-> FALSE, lastPrice |-> None, close |-> None]}

\* the `try:` block of get_live_fx_rate: the rate it returns, None when it
\* falls through or raises
LiveDirect(answer) ==
    IF answer.raises THEN None
    ELSE IF answer.lastPrice # None /\ answer.lastPrice > 0
    THEN answer.lastPrice
    ELSE answer.close

\* get_live_fx_rate without its triangulation and its last `return 1.0`
get_live_fx_rateMut(from, to, live) ==
    IF from = to
    THEN [rate |-> 1, queried |-> {}, answered |-> {}]
    ELSE [rate |-> LiveDirect(live[<<from, to>>]), queried |-> {<<from, to>>},
          answered |-> IF LiveDirect(live[<<from, to>>]) # None
                       THEN {<<from, to>>} ELSE {}]

RECURSIVE get_live_fx_rate(_, _, _)
\* live: the answer of the source to the request for each pair during the
\* call. Returns the rate, the pairs requested from the source (queried) and
\* the pairs it gave a rate for (answered)
get_live_fx_rate(from, to, live) ==
    IF from = to
    THEN [rate |-> 1, queried |-> {}, answered |-> {}]
    ELSE IF LiveDirect(live[<<from, to>>]) # None
    THEN [rate |-> LiveDirect(live[<<from, to>>]), queried |-> {<<from, to>>},
          answered |-> {<<from, to>>}]
    ELSE IF from # "USD" /\ to # "USD"
    THEN [rate |-> get_live_fx_rate(from, "USD", live).rate
                     * get_live_fx_rate("USD", to, live).rate,
          queried |-> {<<from, to>>}
                        \cup get_live_fx_rate(from, "USD", live).queried
                        \cup get_live_fx_rate("USD", to, live).queried,
          answered |-> get_live_fx_rate(from, "USD", live).answered
                         \cup get_live_fx_rate("USD", to, live).answered]
    ELSE [rate |-> 1, queried |-> {<<from, to>>}, answered |-> {}]

RECURSIVE StoreCloses(_, _, _, _)
\* `for date_idx, row in hist.iterrows(): store_rate(...)`
StoreCloses(cache, from, to, days) ==
    IF days = {} THEN cache
    ELSE LET x == SetMin(days) IN
         StoreCloses(store_rate(cache, x, from, to, SourceClose(from, to, x)),
                     from, to, days \ {x})

\* prefetch_fx_rates(conn, from_currency, to_currency, start, end)
prefetch_fx_rates(cache, from, to, start, end, ok) ==
    IF from = to THEN cache
    ELSE IF <<from, to>> \notin ok THEN cache
    ELSE StoreCloses(cache, from, to, History(start, end))

(***************************************************************************)
(* config.WITHHOLDING_TAX_RATES (in percent) and                           *)
(* services/dividend_service.py                                            *)
(***************************************************************************)
WITHHOLDING_TAX_RATES ==
    [US |-> 30, SG |-> 0, HK |-> 0, GB |-> 0, AU |-> 30, CA |-> 25, JP |-> 15,
     DEFAULT |-> 30]

get_withholding_tax_rate(country) ==
    IF country \in DOMAIN WITHHOLDING_TAX_RATES
    THEN WITHHOLDING_TAX_RATES[country] ELSE WITHHOLDING_TAX_RATES["DEFAULT"]

RECURSIVE InsertByDate(_, _)
\* place t after every element of the date-sorted s whose date is <= t.date
InsertByDate(s, t) ==
    IF s = <<>> THEN <<t>>
    ELSE IF Head(s).date <= t.date THEN <<Head(s)>> \o InsertByDate(Tail(s), t)
    ELSE <<t>> \o s

RECURSIVE SortedByDate(_)
\* sorted(transactions, key=lambda t: t["date"]): stable, ascending by date
SortedByDate(s) ==
    IF s = <<>> THEN <<>>
    ELSE InsertByDate(SortedByDate(SubSeq(s, 1, Len(s) - 1)), s[Len(s)])

\* `if txn["date"] > ex_date_str: break`
PastExDateMut(txn_date, ex_date) == txn_date >= ex_date

PastExDate(txn_date, ex_date) == txn_date > ex_date

RECURSIVE SharesHeldOn(_, _)
\* the replay of sorted_txns up to ex_date inside the per-ex-date loop
SharesHeldOn(sorted_txns, ex_date) ==
    IF sorted_txns = <<>> THEN 0
    ELSE IF PastExDate(Head(sorted_txns).date, ex_date) THEN 0
    ELSE (IF Head(sorted_txns).side = "BUY" THEN Head(sorted_txns).quantity
          ELSE IF Head(sorted_txns).side = "SELL"
          THEN 0 - Head(sorted_txns).quantity
          ELSE 0)
         + SharesHeldOn(Tail(sorted_txns), ex_date)

\* the skip with the boundary case let through
NoSharesHeldMut(shares_held) == shares_held < 0

\* `if shares_held <= 0: continue`
NoSharesHeld(shares_held) == shares_held <= 0

\* the lookup for the base currency on the ex-date's successor
DividendFxRateMut(cache, currency, ex_date, ok) ==
    get_fx_rate(cache, currency, BASE_CURRENCY, ex_date + 1, ok)

\* `fx_rate = get_fx_rate(conn, currency, BASE_CURRENCY, ex_date_str)`
DividendFxRate(cache, currency, ex_date, ok) ==
    get_fx_rate(cache, currency, BASE_CURRENCY, ex_date, ok)

\* the record with net_sgd converted from the gross amount
DividendRecordMut(ex_date, div_per_share, shares_held, wht_rate, fx_rate) ==
    LET gross_native == shares_held * div_per_share
        tax_native == (gross_native * wht_rate) \div 100
        net_native == gross_native - tax_native
    IN [ex_date |-> ex_date, div_per_share |-> div_per_share,
        shares_held |-> shares_held, gross_native |-> gross_native,
        wht_rate |-> wht_rate, tax_native |-> tax_native,
        net_native |-> net_native, fx_rate |-> fx_rate,
        net_sgd |-> gross_native * fx_rate]

\* the dividend record appended for one ex-date (the labels `currency` and
\* `year` are left out); amounts are exact, the rate is in percent
DividendRecord(ex_date, div_per_share, shares_held, wht_rate, fx_rate) ==
    LET gross_native == shares_held * div_per_share
        tax_native == (gross_native * wht_rate) \div 100
        net_native == gross_native - tax_native
    IN [ex_date |-> ex_date, div_per_share |-> div_per_share,
        shares_held |-> shares_held, gross_native |-> gross_native,
        wht_rate |-> wht_rate, tax_native |-> tax_native,
        net_native |-> net_native, fx_rate |-> fx_rate,
        net_sgd |-> net_native * fx_rate]

RECURSIVE DividendLoop(_, _, _, _, _, _)
\* `for ex_date, div_per_share in dividend_history.items()`, carrying the
\* running total, the records and the FX cache
DividendLoop(acc, sorted_txns, history, wht_rate, currency, ok) ==
    IF history = <<>> THEN acc
    ELSE LET ex_date == Head(history)[1]
             div_per_share == Head(history)[2]
             shares_held == SharesHeldOn(sorted_txns, ex_date)
         IN IF NoSharesHeld(shares_held)
            THEN DividendLoop(acc, sorted_txns, Tail(history), wht_rate,
                              currency, ok)
            ELSE LET fx == DividendFxRate(acc.cache, currency, ex_date, ok)
                     rec == DividendRecord(ex_date, div_per_share, shares_held,
                                           wht_rate, fx.rate)
                 IN DividendLoop(
                       [total |-> acc.total + rec.net_sgd,
                        records |-> Append(acc.records, rec),
                        cache |-> fx.cache],
                       sorted_txns, Tail(history), wht_rate, currency, ok)

\* calculate_dividends_received(conn, ticker, transactions, dividend_history,
\*                              country, currency)
calculate_dividends_received(cache, transactions, dividend_history, country, currency, ok) ==
    IF dividend_history = <<>>
    THEN [total |-> 0, records |-> <<>>, cache |-> cache]
    ELSE DividendLoop([total |-> 0, records |-> <<>>, cache |-> cache],
                      SortedByDate(transactions), dividend_history,
                      get_withholding_tax_rate(country), currency, ok)

(***************************************************************************)
(* models/transaction.py : the transactions table                          *)
(***************************************************************************)
Tickers == {"AAA", "BBB"}

\* Python's string order on the tickers
TickerRank == [AAA |-> 1, BBB |-> 2]

\* UNIQUE(date, ticker, side, broker, price, quantity) of db/schema.py
SameUniqueKey(a, b) ==
    /\ a.date = b.date /\ a.ticker = b.ticker /\ a.side = b.side
    /\ a.price = b.price /\ a.quantity = b.quantity

\* the seconds of a day, as datetime splits a clock reading into date and
\* time of day
SecondsPerDay == 86400

\* an updated_at text as <<day, separator, second of the day, microsecond>>;
\* the separator is 0 for ' ' and 1 for 'T' (' ' < 'T' as characters), so
\* that the order of the tuples is the order of the strings
\* SQLite's datetime('now'): UTC, "YYYY-MM-DD HH:MM:SS"
SqliteStamp(t) == <<t \div SecondsPerDay, 0, t % SecondsPerDay, 0>>

\* Python's datetime.now().isoformat(): local time, 'T' separator,
\* microseconds
PythonStamp(t, offset, micro) ==
    <<(t + offset) \div SecondsPerDay, 1, (t + offset) % SecondsPerDay, micro>>

\* the order of two updated_at texts under SQLite's MAX
StampLess(a, b) ==
    \/ a[1] < b[1]
    \/ a[1] = b[1] /\ a[2] < b[2]
    \/ a[1] = b[1] /\ a[2] = b[2] /\ a[3] < b[3]
    \/ a[1] = b[1] /\ a[2] = b[2] /\ a[3] = b[3] /\ a[4] < b[4]

\* the updated_at column of a table whose rows were all inserted at time t
InsertedAt(table, t) == [id \in {r.id : r \in table} |-> SqliteStamp(t)]

\* insert_transaction: the row stored under the new id
insert_transaction(table, id, txn) ==
    table \cup {[id |-> id, date |-> txn.date, ticker |-> txn.ticker,
                 side |-> txn.side, price |-> txn.price,
                 quantity |-> txn.quantity,
                 fx_rate_to_sgd |-> txn.fx_rate_to_sgd,
                 fx_rate_override |-> txn.fx_rate_override]}

\* delete_transaction: DELETE FROM transactions WHERE id = ?
delete_transaction(table, txn_id) == {r \in table : r.id # txn_id}

\* update_transaction(conn, txn_id, {"price": .., "quantity": .., "notes": ..})
\* as the edit form calls it: the columns of the row after the UPDATE
update_transaction(table, txn_id, price, quantity) ==
    {IF r.id = txn_id THEN [r EXCEPT !.price = price, !.quantity = quantity]
     ELSE r : r \in table}

\* the id found by upsert_transaction's `SELECT id ... WHERE date = ? AND ...`,
\* None when there is no such row
ExistingId(table, txn) ==
    IF \E r \in table : SameUniqueKey(r, txn)
    THEN (CHOOSE r \in table : SameUniqueKey(r, txn)).id
    ELSE None

(***************************************************************************)
(* services/cache.py : get_transaction_fingerprint                         *)
(***************************************************************************)
\* COALESCE(MAX(id), 0)
MaxRowId(table) ==
    IF table = {} THEN 0
    ELSE CHOOSE i \in {r.id : r \in table} : \A r \in table : r.id <= i

\* COALESCE(MAX(updated_at), ''), the empty text standing as <<>>
MaxUpdatedAt(stamps) ==
    IF DOMAIN stamps = {} THEN <<>>
    ELSE CHOOSE s \in {stamps[i] : i \in DOMAIN stamps} :
            \A i \in DOMAIN stamps : ~StampLess(s, stamps[i])

\* f"{COUNT(*)}_{MAX(id)}_{MAX(updated_at)}"
get_transaction_fingerprint(table, stamps) ==
    <<Cardinality(table), MaxRowId(table), MaxUpdatedAt(stamps)>>

(***************************************************************************)
(* models/transaction.py : get_transactions                                *)
(***************************************************************************)
\* ORDER BY date DESC, id DESC
OrderedBefore(a, b) == a.date > b.date \/ (a.date = b.date /\ a.id > b.id)

RECURSIVE QueryOrder(_)
QueryOrder(rows) ==
    IF rows = {} THEN <<>>
    ELSE LET first == CHOOSE r \in rows :
                         \A o \in rows \ {r} : OrderedBefore(r, o)
         IN <<first>> \o QueryOrder(rows \ {first})

\* get_transactions(conn, tickers=tickers); tickers = {} stands for None
get_transactions(table, tickers) ==
    QueryOrder({r \in table : tickers = {} \/ r.ticker \in tickers})

(***************************************************************************)
(* services/fx_service.py : get_effective_fx_rate                          *)
(***************************************************************************)
\* override > stored > fetch, in the other order of the first two
get_effective_fx_rateMut(cache, txn, ok) ==
    IF txn.fx_rate_to_sgd # None /\ txn.fx_rate_to_sgd > 0
    THEN [rate |-> txn.fx_rate_to_sgd, cache |-> cache, via |-> "stored",
          fetched |-> {}]
    ELSE IF txn.fx_rate_override # None /\ txn.fx_rate_override > 0
    THEN [rate |-> txn.fx_rate_override, cache |-> cache, via |-> "override",
          fetched |-> {}]
    ELSE get_fx_rate(cache, txn.currency, BASE_CURRENCY, txn.date, ok)

\* override > stored > fetch; returns the rate, the cache after the call, the
\* return statement taken (via) and the pairs requested from the source
get_effective_fx_rate(cache, txn, ok) ==
    IF txn.fx_rate_override # None /\ txn.fx_rate_override > 0
    THEN [rate |-> txn.fx_rate_override, cache |-> cache, via |-> "override",
          fetched |-> {}]
    ELSE IF txn.fx_rate_to_sgd # None /\ txn.fx_rate_to_sgd > 0
    THEN [rate |-> txn.fx_rate_to_sgd, cache |-> cache, via |-> "stored",
          fetched |-> {}]
    ELSE get_fx_rate(cache, txn.currency, BASE_CURRENCY, txn.date, ok)

(***************************************************************************)
(* services/portfolio_engine.py : compute_portfolio                        *)
(***************************************************************************)
\* get_ticker_info: the metadata of the tickers
TickerInfo ==
    [AAA |-> [currency |-> "USD", country |-> "US"],
     BBB |-> [currency |-> "SGD", country |-> "SG"]]

\* the key of `all_txns.sort(key=lambda t: (t["ticker"], t["date"]))`
SortKeyLE(a, b) ==
    \/ TickerRank[a.ticker] < TickerRank[b.ticker]
    \/ a.ticker = b.ticker /\ a.date <= b.date

RECURSIVE InsertByTickerDate(_, _)
InsertByTickerDate(s, t) ==
    IF s = <<>> THEN <<t>>
    ELSE IF SortKeyLE(Head(s), t)
    THEN <<Head(s)>> \o InsertByTickerDate(Tail(s), t)
    ELSE <<t>> \o s

RECURSIVE SortedByTickerDate(_)
\* list.sort is stable: equal keys keep the order of the query result
SortedByTickerDate(s) ==
    IF s = <<>> THEN <<>>
    ELSE InsertByTickerDate(SortedByTickerDate(SubSeq(s, 1, Len(s) - 1)),
                            s[Len(s)])

\* one group of `groupby(all_txns, key=lambda t: t["ticker"])`
TickerGroup(all_txns, ticker) ==
    SelectSeq(all_txns, LAMBDA t : t.ticker = ticker)

RECURSIVE ResolveFxRates(_, _, _, _)
\* `for txn in txns: txn["currency"] = currency;
\*                   txn["effective_fx_rate"] = get_effective_fx_rate(conn, txn)`
ResolveFxRates(acc, group, currency, ok) ==
    IF group = <<>> THEN acc
    ELSE LET row == Head(group)
             txn == [id |-> row.id, date |-> row.date, ticker |-> row.ticker,
                     side |-> row.side, price |-> row.price,
                     quantity |-> row.quantity,
                     fx_rate_to_sgd |-> row.fx_rate_to_sgd,
                     fx_rate_override |-> row.fx_rate_override,
                     currency |-> currency]
             fx == get_effective_fx_rate(acc.cache, txn, ok)
         IN ResolveFxRates(
               [txns |-> Append(acc.txns,
                                [id |-> txn.id, date |-> txn.date,
                                 ticker |-> txn.ticker, side |-> txn.side,
                                 price |-> txn.price, quantity |-> txn.quantity,
                                 fx_rate_to_sgd |-> txn.fx_rate_to_sgd,
                                 fx_rate_override |-> txn.fx_rate_override,
                                 currency |-> currency,
                                 effective_fx_rate |-> fx.rate]),
                cache |-> fx.cache],
               Tail(group), currency, ok)

DividendBlockMut(resolved, info, answer, ok) ==
    IF answer.raises
    THEN [raised |-> FALSE, total |-> 1, records |-> <<>>,
          cache |-> resolved.cache]
    ELSE [raised |-> FALSE] @@
         calculate_dividends_received(resolved.cache, resolved.txns,
                                      answer.history, info.country,
                                      info.currency, ok)

\* market: what the external collaborators answer during one call of
\* compute_portfolio:
\*   market.dividends[ticker]  whether the dividend block raises, and the
\*                             dividend history fetched when it does not
\*   market.price[ticker]      whether the live-price block raises, and the
\*                             price get_live_price returns when it does not
\*   market.live_fx            the rate get_live_fx_rate returns
\* `try: ... calculate_dividends_received(...) except Exception: pass`
DividendBlock(resolved, info, answer, ok) ==
    IF answer.raises
    THEN [raised |-> TRUE, total |-> 0, records |-> <<>>,
          cache |-> resolved.cache]
    ELSE [raised |-> FALSE] @@
         calculate_dividends_received(resolved.cache, resolved.txns,
                                      answer.history, info.country,
                                      info.currency, ok)

\* `pos.dividends_net_sgd = net_sgd; pos.dividend_records = records`
AttachDividends(pos, div) ==
    IF div.raised THEN pos
    ELSE [pos EXCEPT !.dividends_net_sgd = div.total,
                     !.dividend_records = div.records]

\* `try: pos.live_price = price_data["price"] or 0.0; pos.live_fx_rate = ...`
AttachLivePrice(pos, answer, currency, live_fx) ==
    IF answer.raises THEN pos
    ELSE [pos EXCEPT !.live_price = IF answer.price = None
                                    THEN 0 ELSE answer.price,
                     !.live_fx_rate = IF currency # BASE_CURRENCY
                                      THEN live_fx ELSE 1]

\* the entry appended to `positions` and the FX cache after it
PositionEntry(ticker, info, resolved, div, market) ==
    [position |->
        [ticker |-> ticker, currency |-> info.currency,
         country |-> info.country, transactions |-> resolved.txns,
         position |-> AttachLivePrice(
                         AttachDividends(compute_position(resolved.txns), div),
                         market.price[ticker], info.currency, market.live_fx)],
     cache |-> div.cache]

\* the part of the loop body after the FX rates of the group are resolved
PositionOfResolved(ticker, info, resolved, market, ok) ==
    PositionEntry(ticker, info, resolved,
                  DividendBlock(resolved, info, market.dividends[ticker], ok),
                  market)

\* the body of `for ticker, txns_iter in groupby(...)` for one ticker
PositionOf(cache, all_txns, ticker, market, ok) ==
    PositionOfResolved(ticker, TickerInfo[ticker],
                       ResolveFxRates([txns |-> <<>>, cache |-> cache],
                                      TickerGroup(all_txns, ticker),
                                      TickerInfo[ticker].currency, ok),
                       market, ok)

RECURSIVE PortfolioLoop(_, _, _, _, _)
PortfolioLoop(acc, all_txns, tickers, market, ok) ==
    IF tickers = {} THEN acc
    ELSE LET ticker == CHOOSE t \in tickers :
                          \A o \in tickers : TickerRank[t] <= TickerRank[o]
             p == PositionOf(acc.cache, all_txns, ticker, market, ok)
         IN PortfolioLoop([positions |-> Append(acc.positions, p.position),
                           cache |-> p.cache],
                          all_txns, tickers \ {ticker}, market, ok)

\* compute_portfolio(conn, brokers=None, tickers=tickers): the positions
\* returned and the FX cache after the call
compute_portfolio(table, cache, tickers, market, ok) ==
    LET all_txns == SortedByTickerDate(get_transactions(table, tickers))
    IN PortfolioLoop([positions |-> <<>>, cache |-> cache], all_txns,
                     {all_txns[i].ticker : i \in DOMAIN all_txns}, market, ok)

(***************************************************************************)
(* services/performance_engine.py : calculate_portfolio_xirr               *)
(***************************************************************************)
\* a cash flow is <<date, amount>>: dates.append(...), amounts.append(...)
\* `for lot in pos.open_lots`: one outflow per open lot
OpenLotFlows(pos) ==
    [i \in 1..Len(pos.open_lots) |->
        <<pos.open_lots[i].date, -total_cost_sgd(pos.open_lots[i])>>]

\* `for cl in pos.closed_lots`: the buy outflow, then the sell inflow
ClosedLotFlows(pos) ==
    [i \in 1..(2 * Len(pos.closed_lots)) |->
        IF i % 2 = 1
        THEN <<pos.closed_lots[(i + 1) \div 2].buy_date,
               -cost_sgd(pos.closed_lots[(i + 1) \div 2])>>
        ELSE <<pos.closed_lots[i \div 2].sell_date,
               proceeds_sgd(pos.closed_lots[i \div 2])>>]

\* `for rec in pos.dividend_records`: one inflow per record, on its ex-date
DividendFlows(pos) ==
    [i \in 1..Len(pos.dividend_records) |->
        <<pos.dividend_records[i].ex_date, pos.dividend_records[i].net_sgd>>]

\* the terminal value, appended whatever the shares held
TerminalFlowsMut(pos, today) ==
    <<<<today, current_value_sgd(pos)>>>>

\* `if pos.shares > 0: dates.append(date.today()); amounts.append(...)`
TerminalFlows(pos, today) ==
    IF shares(pos) > 0 THEN <<<<today, current_value_sgd(pos)>>>> ELSE <<>>

\* the body of `for p in positions` for one entry
PositionFlows(pos, today) ==
    OpenLotFlows(pos) \o ClosedLotFlows(pos) \o DividendFlows(pos)
        \o TerminalFlows(pos, today)

RECURSIVE XirrFlows(_, _)
XirrFlows(positions, today) ==
    IF positions = <<>> THEN <<>>
    ELSE PositionFlows(Head(positions).position, today)
             \o XirrFlows(Tail(positions), today)

\* what pyxirr's xirr(dates, amounts) does with the flows it is handed: it
\* raises, returns None, or returns a rate (in percent)
SolverAnswers ==
    {[raises |-> TRUE, value |-> None], [raises |-> FALSE, value |-> None],
     [raises |-> FALSE, value |-> 7]}

\* the tail of both XIRR functions without the length check
SolveXirrMut(flows, solver) ==
    IF solver.raises THEN None ELSE solver.value

\* `if len(dates) < 2: return None` and
\* `try: result = xirr(dates, amounts); return result if result is not None
\* else None; except Exception: return None`
SolveXirr(flows, solver) ==
    IF Len(flows) < 2 THEN None
    ELSE IF solver.raises THEN None
    ELSE solver.value

\* calculate_portfolio_xirr(positions): the cash flows handed to xirr() and
\* the value returned
calculate_portfolio_xirr(positions, today, solver) ==
    [flows |-> XirrFlows(positions, today),
     result |-> SolveXirr(XirrFlows(positions, today), solver)]

(***************************************************************************)
(* services/performance_engine.py : compute_portfolio_value_over_time      *)
(***************************************************************************)
\* the close the price source reports for a ticker on a trading day
PriceBase == [AAA |-> 100, BBB |-> 200]

\* the benchmark of the page (a key of config.DEFAULT_BENCHMARKS)
BENCHMARK == "VOO"

\* the closes of the benchmark: lower on odd days, higher on even days
BenchmarkClose(day) == IF day % 2 = 1 THEN 20 ELSE 50

Close(ticker, day) ==
    IF ticker = BENCHMARK THEN BenchmarkClose(day) ELSE PriceBase[ticker] + day

\* get_historical_prices(ticker, start=start_date): the trading days from
\* start to today, each with its close
get_historical_prices(trading_days, start, today) ==
    {d \in trading_days : start <= d /\ d <= today}

\* _get_price_on_date(hist_df, target), for the history of the ticker
_get_price_on_date(hist, ticker, target) ==
    IF hist = {} THEN None
    ELSE IF \E d \in hist : d <= target
    THEN Close(ticker, SetMax({d \in hist : d <= target}))
    ELSE Close(ticker, SetMin(hist))

\* the events appended for one position: its open lots, then a BUY and a
\* SELL per closed lot
PositionEvents(entry) ==
    [i \in 1..Len(entry.position.open_lots) |->
        [date |-> entry.position.open_lots[i].date, ticker |-> entry.ticker,
         side |-> "BUY", qty |-> entry.position.open_lots[i].quantity]]
    \o [i \in 1..(2 * Len(entry.position.closed_lots)) |->
          IF i % 2 = 1
          THEN [date |-> entry.position.closed_lots[(i + 1) \div 2].buy_date,
                ticker |-> entry.ticker, side |-> "BUY",
                qty |-> entry.position.closed_lots[(i + 1) \div 2].quantity]
          ELSE [date |-> entry.position.closed_lots[i \div 2].sell_date,
                ticker |-> entry.ticker, side |-> "SELL",
                qty |-> entry.position.closed_lots[i \div 2].quantity]]

RECURSIVE AllEvents(_)
\* all_events before the sort
AllEvents(positions) ==
    IF positions = <<>> THEN <<>>
    ELSE PositionEvents(Head(positions)) \o AllEvents(Tail(positions))

RECURSIVE Holdings(_, _, _)
\* the replay of the sorted events up to grid_date: the tickers in the order
\* they enter the dict, and the quantity held of each
Holdings(acc, events, grid_date) ==
    IF events = <<>> THEN acc
    ELSE IF Head(events).date > grid_date THEN acc
    ELSE LET t == Head(events).ticker
             before == IF t \in DOMAIN acc.qty THEN acc.qty[t] ELSE 0
             after == IF Head(events).side = "BUY"
                      THEN before + Head(events).qty
                      ELSE before - Head(events).qty
         IN Holdings([order |-> IF t \in DOMAIN acc.qty THEN acc.order
                                ELSE Append(acc.order, t),
                      qty |-> [k \in DOMAIN acc.qty \cup {t} |->
                                  IF k = t THEN after ELSE acc.qty[k]]],
                     Tail(events), grid_date)

RECURSIVE ValueLoop(_, _, _, _, _, _, _)
\* `for t, qty in holdings.items()`: the running total, the prices used and
\* the FX cache
ValueLoop(acc, order, qty, hist_prices, currencies, grid_date, ok) ==
    IF order = <<>> THEN acc
    ELSE LET t == Head(order)
             price == _get_price_on_date(hist_prices[t], t, grid_date)
         IN IF qty[t] <= 0 \/ hist_prices[t] = {} \/ price = None
            THEN ValueLoop(acc, Tail(order), qty, hist_prices, currencies,
                           grid_date, ok)
            ELSE LET fx == IF currencies[t] # BASE_CURRENCY
                           THEN get_fx_rate(acc.cache, currencies[t],
                                            BASE_CURRENCY, grid_date, ok)
                           ELSE [rate |-> 1, cache |-> acc.cache]
                 IN ValueLoop([total_sgd |-> acc.total_sgd
                                               + qty[t] * price * fx.rate,
                               priced |-> Append(acc.priced,
                                                 [ticker |-> t, qty |-> qty[t],
                                                  price |-> price]),
                               cache |-> fx.cache],
                              Tail(order), qty, hist_prices, currencies,
                              grid_date, ok)

\* pd.date_range(start, end, freq): every freq-th day of the calendar that
\* lies in [start, end] ('D' is 1; the longer periods are anchored, as 'W'
\* is on Sundays)
DateRange(start, end, freq) == {g \in start..end : g % freq = 0}

RECURSIVE GridLoop(_, _, _, _, _, _)
\* `for grid_date in date_range`
GridLoop(acc, grid, events, hist_prices, currencies, ok) ==
    IF grid = {} THEN acc
    ELSE LET grid_date == SetMin(grid)
             held == Holdings([order |-> <<>>, qty |-> [k \in {} |-> 0]],
                              events, grid_date)
             v == ValueLoop([total_sgd |-> 0, priced |-> <<>>,
                             cache |-> acc.cache],
                            held.order, held.qty, hist_prices, currencies,
                            grid_date, ok)
         IN GridLoop([values |-> Append(acc.values,
                                        [date |-> grid_date,
                                         value_sgd |-> v.total_sgd,
                                         priced |-> v.priced]),
                      cache |-> v.cache],
                     grid \ {grid_date}, events, hist_prices, currencies, ok)

\* compute_portfolio_value_over_time(conn, positions, freq): the rows of the
\* frame (with the prices used for each row) and the FX cache after the call
compute_portfolio_value_over_time(cache, positions, trading_days, freq, today, ok) ==
    IF AllEvents(positions) = <<>> THEN [values |-> <<>>, cache |-> cache]
    ELSE LET events == SortedByDate(AllEvents(positions))
             start_date == events[1].date
         IN GridLoop([values |-> <<>>, cache |-> cache],
                     DateRange(start_date, today, freq), events,
                     [t \in {positions[i].ticker : i \in DOMAIN positions} |->
                         get_historical_prices(trading_days, start_date, today)],
                     [t \in {positions[i].ticker : i \in DOMAIN positions} |->
                         positions[CHOOSE i \in DOMAIN positions :
                                      positions[i].ticker = t].currency],
                     ok)

(***************************************************************************)
(* services/performance_engine.py : calculate_benchmark_xirr               *)
(***************************************************************************)
\* benchmark shares and the amounts derived from them are fractions; they
\* are counted in units of 1/ShareScale, a multiple of every FX rate a flow
\* date can have, so that every quotient of the simulation is exact
ShareScale ==
    SourceClose("USD", BASE_CURRENCY, 1) * SourceClose("USD", BASE_CURRENCY, 2)
        * SourceClose("USD", BASE_CURRENCY, 3)

\* the cash flows appended for one position: (date, amt_sgd, side) per open
\* lot, then a BUY and a SELL per closed lot
PositionCashFlows(pos) ==
    [i \in 1..Len(pos.open_lots) |->
        [date |-> pos.open_lots[i].date,
         amt_sgd |-> total_cost_sgd(pos.open_lots[i]), side |-> "BUY"]]
    \o [i \in 1..(2 * Len(pos.closed_lots)) |->
          IF i % 2 = 1
          THEN [date |-> pos.closed_lots[(i + 1) \div 2].buy_date,
                amt_sgd |-> cost_sgd(pos.closed_lots[(i + 1) \div 2]),
                side |-> "BUY"]
          ELSE [date |-> pos.closed_lots[i \div 2].sell_date,
                amt_sgd |-> proceeds_sgd(pos.closed_lots[i \div 2]),
                side |-> "SELL"]]

RECURSIVE CashFlows(_)
\* cash_flows before the sort
CashFlows(positions) ==
    IF positions = <<>> THEN <<>>
    ELSE PositionCashFlows(Head(positions).position)
            \o CashFlows(Tail(positions))

\* (amt_sgd / fx_rate) / bench_price, in share units
BenchmarkUnits(amt_sgd, fx_rate, bench_price) ==
    (amt_sgd \div bench_price) * (ShareScale \div fx_rate)

\* `shares_to_sell = amt_bench / bench_price`, without the cap
SharesToSellMut(amt_sgd, fx_rate, bench_price, benchmark_shares) ==
    BenchmarkUnits(amt_sgd, fx_rate, bench_price)

\* `shares_to_sell = min(amt_bench / bench_price, benchmark_shares)`
SharesToSell(amt_sgd, fx_rate, bench_price, benchmark_shares) ==
    Min(BenchmarkUnits(amt_sgd, fx_rate, bench_price), benchmark_shares)

\* the body of `for d, amt_sgd, side in cash_flows` once the price and the
\* rate of the date are known: the shares after the flow and the amount
\* appended to xirr_amounts (None when nothing is appended); amounts are in
\* units of 1/ShareScale SGD
SimulateFlow(flow, bench_price, fx, benchmark_shares) ==
    IF bench_price = None \/ bench_price <= 0
    THEN [shares |-> benchmark_shares, amount |-> None, sold |-> 0]
    ELSE IF flow.side = "BUY"
    THEN [shares |-> benchmark_shares
                        + BenchmarkUnits(flow.amt_sgd, fx, bench_price),
          amount |-> -(flow.amt_sgd * ShareScale), sold |-> 0]
    ELSE IF benchmark_shares <= 0
    THEN [shares |-> benchmark_shares, amount |-> None, sold |-> 0]
    ELSE [shares |-> benchmark_shares
                        - SharesToSell(flow.amt_sgd, fx, bench_price,
                                       benchmark_shares),
          amount |-> SharesToSell(flow.amt_sgd, fx, bench_price,
                                  benchmark_shares) * bench_price * fx,
          sold |-> SharesToSell(flow.amt_sgd, fx, bench_price,
                                benchmark_shares)]

\* `if fx_rate <= 0: fx_rate = 1.0`
PositiveRate(rate) == IF rate <= 0 THEN 1 ELSE rate

RECURSIVE SimulationLoop(_, _, _, _, _)
\* `for d, amt_sgd, side in cash_flows`, carrying benchmark_shares, one step
\* per flow (date, side, amt_sgd, the price and rate used, the shares before
\* and after, the amount appended) and the FX cache
SimulationLoop(acc, cash_flows, bench_hist, bench_currency, ok) ==
    IF cash_flows = <<>> THEN acc
    ELSE IF \/ _get_price_on_date(bench_hist, BENCHMARK,
                                  Head(cash_flows).date) = None
            \/ _get_price_on_date(bench_hist, BENCHMARK,
                                  Head(cash_flows).date) <= 0
    THEN SimulationLoop(acc, Tail(cash_flows), bench_hist, bench_currency, ok)
    ELSE LET flow == Head(cash_flows)
             fx == get_fx_rate(acc.cache, bench_currency, BASE_CURRENCY,
                               flow.date, ok)
             r == SimulateFlow(flow,
                               _get_price_on_date(bench_hist, BENCHMARK,
                                                  flow.date),
                               PositiveRate(fx.rate), acc.shares)
         IN SimulationLoop(
               [shares |-> r.shares,
                steps |-> Append(acc.steps,
                                 [date |-> flow.date, side |-> flow.side,
                                  amt_sgd |-> flow.amt_sgd,
                                  bench_price |->
                                     _get_price_on_date(bench_hist, BENCHMARK,
                                                        flow.date),
                                  fx_rate |-> PositiveRate(fx.rate),
                                  before |-> acc.shares, after |-> r.shares,
                                  sold |-> r.sold, amount |-> r.amount]),
                cache |-> fx.cache],
               Tail(cash_flows), bench_hist, bench_currency, ok)

RECURSIVE AppendedFlows(_)
\* xirr_dates / xirr_amounts after the loop: the steps that appended one
AppendedFlows(steps) ==
    IF steps = <<>> THEN <<>>
    ELSE (IF Head(steps).amount = None THEN <<>>
          ELSE <<<<Head(steps).date, Head(steps).amount>>>>)
         \o AppendedFlows(Tail(steps))

\* the terminal block: `if benchmark_shares > 0: try: ... except: return None`
\* with the live quote of the benchmark; `aborted` stands for the early
\* return
BenchmarkTerminal(benchmark_shares, today, live) ==
    IF benchmark_shares <= 0 THEN [aborted |-> FALSE, flows |-> <<>>]
    ELSE IF live.raises THEN [aborted |-> TRUE, flows |-> <<>>]
    ELSE [aborted |-> FALSE,
          flows |-> <<<<today, benchmark_shares * live.price * live.fx>>>>]

\* the part of calculate_benchmark_xirr after the simulation
BenchmarkXirrResult(sim, terminal, solver) ==
    [steps |-> sim.steps, shares |-> sim.shares,
     flows |-> AppendedFlows(sim.steps) \o terminal.flows,
     result |-> IF terminal.aborted THEN None
                ELSE SolveXirr(AppendedFlows(sim.steps) \o terminal.flows,
                               solver),
     cache |-> sim.cache]

\* the simulation over the sorted cash flows, with the history fetched from
\* the first flow date
BenchmarkSimulation(cache, cash_flows, trading_days, bench_currency, today, ok) ==
    SimulationLoop([shares |-> 0, steps |-> <<>>, cache |-> cache],
                   SortedByDate(cash_flows),
                   get_historical_prices(trading_days,
                                         SortedByDate(cash_flows)[1].date,
                                         today),
                   bench_currency, ok)

\* calculate_benchmark_xirr(conn, positions, benchmark_ticker)
calculate_benchmark_xirr(cache, positions, trading_days, bench_currency, today, live, solver, ok) ==
    IF CashFlows(positions) = <<>>
    THEN [steps |-> <<>>, shares |-> 0, flows |-> <<>>, result |-> None,
          cache |-> cache]
    ELSE IF get_historical_prices(
               trading_days, SortedByDate(CashFlows(positions))[1].date,
               today) = {}
    THEN [steps |-> <<>>, shares |-> 0, flows |-> <<>>, result |-> None,
          cache |-> cache]
    ELSE LET sim == BenchmarkSimulation(cache, CashFlows(positions),
                                        trading_days, bench_currency, today, ok)
         IN BenchmarkXirrResult(sim,
                                BenchmarkTerminal(sim.shares, today, live),
                                solver)

(***************************************************************************)
(* services/performance_engine.py : compute_benchmark_value_over_time      *)
(***************************************************************************)
\* the body of `for d, amt_sgd, side in cash_flows` of the series: the
\* simulated shares after the flow
SeriesFlowMut(flow, bp, fx, bench_shares) ==
    IF flow.side = "BUY"
    THEN bench_shares + (flow.amt_sgd \div bp) * (ShareScale \div fx)
    ELSE IF flow.side = "SELL"
    THEN bench_shares - (flow.amt_sgd \div bp) * (ShareScale \div fx)
    ELSE bench_shares

SeriesFlow(flow, bp, fx, bench_shares) ==
    IF flow.side = "BUY"
    THEN bench_shares + (flow.amt_sgd \div bp) * (ShareScale \div fx)
    ELSE IF flow.side = "SELL"
    THEN bench_shares
            - Min((flow.amt_sgd \div bp) * (ShareScale \div fx), bench_shares)
    ELSE bench_shares

RECURSIVE SeriesReplay(_, _, _, _, _, _)
\* `for d, amt_sgd, side in cash_flows: if d > grid_d: break ...`
SeriesReplay(acc, cash_flows, grid_d, bench_hist, bench_currency, ok) ==
    IF cash_flows = <<>> THEN acc
    ELSE IF Head(cash_flows).date > grid_d THEN acc
    ELSE IF \/ _get_price_on_date(bench_hist, BENCHMARK,
                                  Head(cash_flows).date) = None
            \/ _get_price_on_date(bench_hist, BENCHMARK,
                                  Head(cash_flows).date) <= 0
    THEN SeriesReplay(acc, Tail(cash_flows), grid_d, bench_hist,
                      bench_currency, ok)
    ELSE LET fx == get_fx_rate(acc.cache, bench_currency, BASE_CURRENCY,
                               Head(cash_flows).date, ok)
         IN SeriesReplay(
               [shares |-> SeriesFlow(Head(cash_flows),
                                      _get_price_on_date(
                                         bench_hist, BENCHMARK,
                                         Head(cash_flows).date),
                                      fx.rate, acc.shares),
                cache |-> fx.cache],
               Tail(cash_flows), grid_d, bench_hist, bench_currency, ok)

\* the row appended for one grid date, given the replay up to it and the
\* rate of the grid date; value_sgd is in units of 1/ShareScale SGD
SeriesRow(grid_date, replay, bp_now, fx_now) ==
    [row |-> [date |-> grid_date, bench_shares |-> replay.shares,
              value_sgd |-> replay.shares
                               * (IF bp_now = None THEN 0 ELSE bp_now)
                               * fx_now.rate],
     cache |-> fx_now.cache]

\* the body of `for grid_date in date_range`
SeriesPoint(cache, cash_flows, grid_date, bench_hist, bench_currency, ok) ==
    SeriesRow(grid_date,
              SeriesReplay([shares |-> 0, cache |-> cache], cash_flows,
                           grid_date, bench_hist, bench_currency, ok),
              _get_price_on_date(bench_hist, BENCHMARK, grid_date),
              get_fx_rate(SeriesReplay([shares |-> 0, cache |-> cache],
                                       cash_flows, grid_date, bench_hist,
                                       bench_currency, ok).cache,
                          bench_currency, BASE_CURRENCY, grid_date, ok))

RECURSIVE SeriesLoop(_, _, _, _, _, _)
SeriesLoop(acc, grid, cash_flows, bench_hist, bench_currency, ok) ==
    IF grid = {} THEN acc
    ELSE SeriesLoop(
            [values |-> Append(acc.values,
                               SeriesPoint(acc.cache, cash_flows, SetMin(grid),
                                           bench_hist, bench_currency,
                                           ok).row),
             cache |-> SeriesPoint(acc.cache, cash_flows, SetMin(grid),
                                   bench_hist, bench_currency, ok).cache],
            grid \ {SetMin(grid)}, cash_flows, bench_hist, bench_currency, ok)

\* compute_benchmark_value_over_time(conn, positions, benchmark_ticker, freq)
compute_benchmark_value_over_time(cache, positions, trading_days, bench_currency, freq, today, ok) ==
    IF CashFlows(positions) = <<>> THEN [values |-> <<>>, cache |-> cache]
    ELSE IF get_historical_prices(
               trading_days, SortedByDate(CashFlows(positions))[1].date,
               today) = {}
    THEN [values |-> <<>>, cache |-> cache]
    ELSE SeriesLoop([values |-> <<>>, cache |-> cache],
                    DateRange(SortedByDate(CashFlows(positions))[1].date,
                              today, freq),
                    SortedByDate(CashFlows(positions)),
                    get_historical_prices(
                       trading_days,
                       SortedByDate(CashFlows(positions))[1].date, today),
                    bench_currency, ok)

(***************************************************************************)
(* States at rest, before any call                                         *)
(***************************************************************************)
EmptyCache == [k \in {} |-> 0]

NoCall ==
    [op |-> "none", from |-> BASE_CURRENCY, to |-> BASE_CURRENCY, date |-> 0,
     rate |-> None, via |-> "none", fetched |-> {}, direct |-> None,
     before |-> None]

\* the FX resolver at rest, before any call
FxIdle ==
    /\ fx_source = {}
    /\ fx_rate_cache = EmptyCache
    /\ fx_call = NoCall
    /\ fx_calls = 0

NoDivInput ==
    [called |-> FALSE, transactions |-> <<>>, dividend_history |-> <<>>,
     country |-> "SG", currency |-> "SGD"]

NoDivResult == [total |-> 0, records |-> <<>>]

DivIdle ==
    /\ div_input = NoDivInput
    /\ div_result = NoDivResult

NoPortfolio ==
    [called |-> FALSE, tickers |-> {}, market |-> <<>>, positions |-> <<>>]

\* an empty transactions table and no portfolio computed
DbIdle ==
    /\ db_transactions = {}
    /\ next_id = 1
    /\ portfolio = NoPortfolio

NoLiveCall ==
    [called |-> FALSE, from |-> BASE_CURRENCY, to |-> BASE_CURRENCY,
     rate |-> None, queried |-> {}, answered |-> {}, at |-> 0]

LiveIdle == live_call = NoLiveCall

\* the clock at its start, on a machine whose local time is UTC
TimeIdle ==
    /\ now = 0
    /\ utc_offset = 0

NoCachedCall ==
    [called |-> FALSE, brokers |-> {}, tickers |-> {}, outcome |-> "none"]

\* no portfolio request made in this session
SessionIdle ==
    /\ updated_at = [id \in {} |-> <<>>]
    /\ session_state = [k \in {} |-> <<>>]
    /\ cached_call = NoCachedCall

NoPerfCall == [op |-> "none"]

\* no benchmark call made yet
NoBenchCall == [xirr |-> [called |-> FALSE], series |-> [called |-> FALSE]]

PerfIdle ==
    /\ price_source = {}
    /\ perf_call = NoPerfCall
    /\ bench_call = NoBenchCall

(***************************************************************************)
(* The FX resolver as a state machine: resolver calls against a source     *)
(* whose requests fail transiently                                         *)
(***************************************************************************)
InitFx ==
    /\ fx_source \in SUBSET FxDays
    /\ fx_rate_cache = EmptyCache
    /\ fx_call = NoCall
    /\ fx_calls = 0
    /\ txns = <<>>
    /\ position = EmptyPosition
    /\ DivIdle
    /\ DbIdle
    /\ LiveIdle
    /\ TimeIdle
    /\ SessionIdle
    /\ PerfIdle

GetFxRate(from, to, date, ok) ==
    /\ fx_calls < MaxFxCalls
    /\ LET r == get_fx_rate(fx_rate_cache, from, to, date, ok) IN
         /\ fx_rate_cache' = r.cache
         /\ fx_call' = [op |-> "get", from |-> from, to |-> to, date |-> date,
                        rate |-> r.rate, via |-> r.via, fetched |-> r.fetched,
                        direct |-> IF from = to THEN None
                                   ELSE _fetch_fx_rate_yfinance(from, to, date, ok),
                        before |-> get_cached_rate(fx_rate_cache, date, from, to)]
    /\ fx_calls' = fx_calls + 1
    /\ UNCHANGED <<fx_source, replayVars, divVars, dbVars,
                   liveVars, timeVars, sessionVars, perfVars>>

PrefetchFxRates(from, to, start, end, ok) ==
    /\ fx_calls < MaxFxCalls
    /\ start <= end
    /\ fx_rate_cache' = prefetch_fx_rates(fx_rate_cache, from, to, start, end, ok)
    /\ fx_call' = [NoCall EXCEPT !.op = "prefetch", !.from = from, !.to = to,
                                 !.date = start]
    /\ fx_calls' = fx_calls + 1
    /\ UNCHANGED <<fx_source, replayVars, divVars, dbVars,
                   liveVars, timeVars, sessionVars, perfVars>>

\* the pairs one get_fx_rate(from, to) call can request from the source
RequestedPairs(from, to) ==
    {<<from, to>>, <<from, "USD">>, <<"USD", to>>} \cap Pairs

NextFx ==
    \/ \E from \in Currencies, to \in Currencies, date \in FxDays :
          \E ok \in SUBSET RequestedPairs(from, to) :
             GetFxRate(from, to, date, ok)
    \/ \E from \in Currencies, to \in Currencies, start \in FxDays,
          end \in FxDays :
          \E ok \in SUBSET ({<<from, to>>} \cap Pairs) :
             PrefetchFxRates(from, to, start, end + 1, ok)

SpecFx == InitFx /\ [][NextFx]_vars

(***************************************************************************)
(* get_effective_fx_rate as a state machine: the rate of one transaction   *)
(* is resolved per call, against the cache the earlier calls left          *)
(***************************************************************************)
\* the fields of a transaction get_effective_fx_rate reads; an absent or
\* NULL rate is None, and 0 is a rate that is present but not positive
EffectiveTxnInputs ==
    [date : Dates, currency : Currencies, fx_rate_override : {None, 0, 3},
     fx_rate_to_sgd : {None, 0, 4}]

\* the source is asked only when neither rate of the transaction is positive
EffectivePairs(txn) ==
    IF \/ txn.fx_rate_override > 0
       \/ txn.fx_rate_to_sgd > 0
    THEN {}
    ELSE RequestedPairs(txn.currency, BASE_CURRENCY)

GetEffectiveFxRate(txn, ok) ==
    /\ fx_calls < MaxFxCalls
    /\ LET r == get_effective_fx_rate(fx_rate_cache, txn, ok) IN
         /\ fx_rate_cache' = r.cache
         /\ fx_call' = [op |-> "effective", from |-> txn.currency,
                        to |-> BASE_CURRENCY, date |-> txn.date,
                        rate |-> r.rate, via |-> r.via, fetched |-> r.fetched,
                        direct |-> None,
                        before |-> get_cached_rate(fx_rate_cache, txn.date,
                                                   txn.currency, BASE_CURRENCY),
                        fx_rate_override |-> txn.fx_rate_override,
                        fx_rate_to_sgd |-> txn.fx_rate_to_sgd]
    /\ fx_calls' = fx_calls + 1
    /\ UNCHANGED <<fx_source, replayVars, divVars, dbVars,
                   liveVars, timeVars, sessionVars, perfVars>>

NextEffective ==
    \E txn \in EffectiveTxnInputs :
       \E ok \in SUBSET EffectivePairs(txn) : GetEffectiveFxRate(txn, ok)

SpecEffective == InitFx /\ [][NextEffective]_vars

(***************************************************************************)
(* The historical resolver and the live resolver side by side: calls to    *)
(* get_fx_rate and get_live_fx_rate, and the clock                         *)
(***************************************************************************)
MaxTicks == 2

\* config.LIVE_FX_TTL, in seconds
LIVE_FX_TTL == 300

\* the clock advances between calls by less than the TTL
TickSeconds == (2 * LIVE_FX_TTL) \div 3

\* the answers of the live-quote source to the requests of one call
LiveAnswersFor(from, to) == [RequestedPairs(from, to) -> LiveAnswers]

GetLiveFxRate(from, to, live) ==
    /\ fx_calls < MaxFxCalls
    /\ live_call' = [called |-> TRUE, from |-> from, to |-> to,
                     rate |-> get_live_fx_rate(from, to, live).rate,
                     queried |-> get_live_fx_rate(from, to, live).queried,
                     answered |-> get_live_fx_rate(from, to, live).answered,
                     at |-> now]
    /\ fx_calls' = fx_calls + 1
    /\ UNCHANGED <<fx_source, fx_rate_cache, fx_call, replayVars, divVars,
                   dbVars, timeVars, sessionVars, perfVars>>

Tick ==
    /\ now % SecondsPerDay < MaxTicks * TickSeconds
    /\ now' = now + TickSeconds
    /\ UNCHANGED <<utc_offset, replayVars, fxVars, divVars, dbVars, liveVars,
                   sessionVars, perfVars>>

\* a session of historical lookups that ends with one live lookup
NextLive ==
    \/ /\ ~live_call.called
       /\ \E from \in Currencies, to \in Currencies, date \in Dates :
             \E ok \in SUBSET RequestedPairs(from, to) :
                GetFxRate(from, to, date, ok)
    \/ /\ ~live_call.called
       /\ \E from \in Currencies, to \in Currencies :
             \E live \in LiveAnswersFor(from, to) :
                GetLiveFxRate(from, to, live)

SpecLive == InitFx /\ [][NextLive]_vars

\* live lookups one after the other while the clock advances
NextLiveTtl ==
    \/ \E from \in Currencies, to \in Currencies :
          \E live \in LiveAnswersFor(from, to) : GetLiveFxRate(from, to, live)
    \/ Tick

SpecLiveTtl == InitFx /\ [][NextLiveTtl]_vars

(***************************************************************************)
(* calculate_dividends_received applied to bounded inputs                  *)
(***************************************************************************)
\* transactions of one ticker, in any order
DivTxnInputs ==
    [date : Dates, side : Sides, price : {100}, quantity : Quantities,
     effective_fx_rate : {1}]

DivTxnLists == UNION {[1..n -> DivTxnInputs] : n \in 0..MaxDivTxns}

\* the dividend per share the source reports for each ex-date
DivAmounts == <<20, 40, 20>>

\* a dividend Series: at most one amount per ex-date, ascending by ex-date
RECURSIVE HistoryOf(_, _)
HistoryOf(days, amount) ==
    IF days = {} THEN <<>>
    ELSE <<<<SetMin(days), amount[SetMin(days)]>>>>
         \o HistoryOf(days \ {SetMin(days)}, amount)

DividendHistories == {HistoryOf(days, DivAmounts) : days \in SUBSET FxDays}

\* ticker metadata (country, currency) as get_ticker_info returns it
TickerProfiles ==
    {[country |-> "SG", currency |-> "SGD"],
     [country |-> "CA", currency |-> "USD"],
     [country |-> "ZZ", currency |-> "JPY"]}

InitDiv ==
    /\ DivIdle
    /\ fx_source \in {{}, {2}, FxDays}
    /\ fx_rate_cache = EmptyCache
    /\ fx_call = NoCall
    /\ fx_calls = 0
    /\ txns = <<>>
    /\ position = EmptyPosition
    /\ DbIdle
    /\ LiveIdle
    /\ TimeIdle
    /\ SessionIdle
    /\ PerfIdle

CalculateDividendsReceived(transactions, dividend_history, profile) ==
    /\ ~div_input.called
    /\ LET r == calculate_dividends_received(
                   fx_rate_cache, transactions, dividend_history,
                   profile.country, profile.currency, Pairs)
       IN /\ div_result' = [total |-> r.total, records |-> r.records]
          /\ fx_rate_cache' = r.cache
    /\ div_input' = [called |-> TRUE, transactions |-> transactions,
                     dividend_history |-> dividend_history,
                     country |-> profile.country,
                     currency |-> profile.currency]
    /\ UNCHANGED <<fx_source, fx_call, fx_calls, replayVars, dbVars,
                   liveVars, timeVars, sessionVars, perfVars>>

NextDiv ==
    /\ ~div_input.called
    /\ \E transactions \in DivTxnLists, dividend_history \in DividendHistories,
          profile \in TickerProfiles :
          CalculateDividendsReceived(transactions, dividend_history, profile)

SpecDiv == InitDiv /\ [][NextDiv]_vars

(***************************************************************************)
(* The transaction store and compute_portfolio as a state machine          *)
(***************************************************************************)
\* the rows the pages insert (no stored rate, no override)
RowInputs ==
    [date : Dates, ticker : Tickers, side : Sides, price : {100},
     quantity : {10}, fx_rate_to_sgd : {None}, fx_rate_override : {None}]

\* the dividend block of a ticker raises, fetches nothing, or fetches one
\* dividend
DividendAnswers ==
    {[raises |-> TRUE, history |-> <<>>], [raises |-> FALSE, history |-> <<>>],
     [raises |-> FALSE, history |-> <<<<2, 20>>>>]}

\* the live-price block of a ticker raises, or get_live_price returns a
\* price (0 when its own fetch failed)
PriceAnswers ==
    {[raises |-> TRUE, price |-> None], [raises |-> FALSE, price |-> 0],
     [raises |-> FALSE, price |-> 150]}

MarketAnswers ==
    [dividends : [Tickers -> DividendAnswers], price : [Tickers -> PriceAnswers],
     live_fx : {2}]

TickerFilters == {{}, {"AAA"}}

InitPortfolio ==
    /\ DbIdle
    /\ LiveIdle
    /\ TimeIdle
    /\ SessionIdle
    /\ PerfIdle
    /\ DivIdle
    /\ fx_source = FxDays
    /\ fx_rate_cache = EmptyCache
    /\ fx_call = NoCall
    /\ fx_calls = 0
    /\ txns = <<>>
    /\ position = EmptyPosition

\* pages/transactions.py : insert_transaction; a row that repeats the unique
\* key of a stored row is rejected by the table
InsertTransaction(txn) ==
    /\ next_id <= MaxId
    /\ \A r \in db_transactions : ~SameUniqueKey(r, txn)
    /\ db_transactions' = insert_transaction(db_transactions, next_id, txn)
    /\ updated_at' = updated_at @@ (next_id :> SqliteStamp(now))
    /\ next_id' = next_id + 1
    /\ portfolio' = NoPortfolio
    /\ UNCHANGED <<replayVars, fxVars, divVars, liveVars, timeVars,
                   session_state, cached_call, perfVars>>

DeleteTransaction(txn_id) ==
    /\ \E r \in db_transactions : r.id = txn_id
    /\ db_transactions' = delete_transaction(db_transactions, txn_id)
    /\ updated_at' = [id \in DOMAIN updated_at \ {txn_id} |-> updated_at[id]]
    /\ portfolio' = NoPortfolio
    /\ UNCHANGED <<next_id, replayVars, fxVars, divVars, liveVars, timeVars,
                   session_state, cached_call, perfVars>>

ComputePortfolio(tickers, market) ==
    /\ ~portfolio.called
    /\ LET r == compute_portfolio(db_transactions, fx_rate_cache, tickers,
                                  market, Pairs)
       IN /\ portfolio' = [called |-> TRUE, tickers |-> tickers,
                           market |-> market, positions |-> r.positions]
          /\ fx_rate_cache' = r.cache
    /\ UNCHANGED <<db_transactions, next_id, fx_source, fx_call, fx_calls,
                   replayVars, divVars,
                   liveVars, timeVars, sessionVars, perfVars>>

NextPortfolio ==
    \/ \E txn \in RowInputs : InsertTransaction(txn)
    \/ \E txn_id \in 1..MaxId : DeleteTransaction(txn_id)
    \/ \E tickers \in TickerFilters, market \in MarketAnswers :
          ComputePortfolio(tickers, market)

SpecPortfolio == InitPortfolio /\ [][NextPortfolio]_vars

(***************************************************************************)
(* compute_position as a state machine: one step per replayed transaction  *)
(* of a date-ascending list                                                *)
(***************************************************************************)
InitReplay ==
    /\ txns = <<>>
    /\ position = EmptyPosition
    /\ FxIdle
    /\ DivIdle
    /\ DbIdle
    /\ LiveIdle
    /\ TimeIdle
    /\ SessionIdle
    /\ PerfIdle

ReplayStep(txn) ==
    /\ Len(txns) < MaxTxns
    /\ txns # <<>> => txns[Len(txns)].date <= txn.date
    /\ txns' = Append(txns, txn)
    /\ position' = ApplyTxn(position, txn)
    /\ UNCHANGED <<fxVars, divVars, dbVars,
                   liveVars, timeVars, sessionVars, perfVars>>

NextReplay == \E txn \in TxnInputs : ReplayStep(txn)

SpecReplay == InitReplay /\ [][NextReplay]_vars

\* the stepwise replay and the function agree
ReplayIsComputePosition == position = compute_position(txns)

(***************************************************************************)
(* The performance page: the XIRR cash flows and the value over time of a  *)
(* portfolio                                                               *)
(***************************************************************************)
\* the rows of the performance runs: trades of AAA, and one buy of BBB
PerfRows ==
    [date : Dates, ticker : {"AAA"}, side : Sides, price : {100},
     quantity : Quantities, fx_rate_to_sgd : {None}, fx_rate_override : {None}]
    \cup [date : {1}, ticker : {"BBB"}, side : {"BUY"}, price : {100},
          quantity : {10}, fx_rate_to_sgd : {None}, fx_rate_override : {None}]

\* the rows in the order of their insertion; the table rejects a repeated key
PerfInsertions ==
    UNION {{s \in [1..n -> PerfRows] :
               \A i, j \in 1..n : i # j => ~SameUniqueKey(s[i], s[j])}
           : n \in 0..MaxId}

RECURSIVE TableOf(_, _)
\* the table after insert_transaction of the rows of s, ids from `id` on
TableOf(s, id) ==
    IF s = <<>> THEN {}
    ELSE insert_transaction(TableOf(Tail(s), id + 1), id, Head(s))

\* AAA pays one dividend and both live prices are fetched, or no dividend
\* is paid and the live price of AAA is not fetched
PerfMarkets ==
    {[dividends |-> [AAA |-> [raises |-> FALSE, history |-> <<<<2, 20>>>>],
                     BBB |-> [raises |-> FALSE, history |-> <<>>]],
      price |-> [AAA |-> [raises |-> FALSE, price |-> 150],
                 BBB |-> [raises |-> FALSE, price |-> 150]],
      live_fx |-> 2],
     [dividends |-> [AAA |-> [raises |-> FALSE, history |-> <<>>],
                     BBB |-> [raises |-> FALSE, history |-> <<>>]],
      price |-> [AAA |-> [raises |-> TRUE, price |-> None],
                 BBB |-> [raises |-> FALSE, price |-> 150]],
      live_fx |-> 2]}

\* date.today() of the performance runs: the last transaction date or later
PerfTodays == {MaxDate, MaxDate + 1}

\* the days on which the price source has a close: every day, every day but
\* the first, the first and the last only
TradingDayChoices ==
    {1..(MaxDate + 1), 2..(MaxDate + 1), {1, MaxDate + 1}}

\* 'D' and a longer period
Frequencies == {1, 2}

\* the transactions are stored; no page has been rendered yet
InitPerf ==
    /\ fx_source = FxDays
    /\ \E s \in PerfInsertions :
          /\ db_transactions = TableOf(s, 1)
          /\ next_id = Len(s) + 1
          /\ updated_at = InsertedAt(TableOf(s, 1), 0)
    /\ portfolio = NoPortfolio
    /\ session_state = [k \in {} |-> <<>>]
    /\ cached_call = NoCachedCall
    /\ LiveIdle
    /\ TimeIdle
    /\ price_source \in TradingDayChoices
    /\ perf_call = NoPerfCall
    /\ bench_call = NoBenchCall
    /\ DivIdle
    /\ fx_rate_cache = EmptyCache
    /\ fx_call = NoCall
    /\ fx_calls = 0
    /\ txns = <<>>
    /\ position = EmptyPosition

\* pages/performance.py : calculate_portfolio_xirr(positions)
CalculatePortfolioXirr(today, solver) ==
    /\ portfolio.called
    /\ perf_call.op = "none"
    /\ perf_call' = [op |-> "xirr", today |-> today, solver |-> solver,
                     flows |-> calculate_portfolio_xirr(portfolio.positions,
                                                        today, solver).flows,
                     result |-> calculate_portfolio_xirr(portfolio.positions,
                                                         today, solver).result]
    /\ UNCHANGED <<dbVars, replayVars, fxVars, divVars, liveVars, timeVars,
                   sessionVars, price_source, bench_call>>

\* pages/performance.py : compute_portfolio_value_over_time(conn, positions,
\* freq=freq_code)
ComputePortfolioValueOverTime(freq, today) ==
    /\ portfolio.called
    /\ perf_call.op = "none"
    /\ LET r == compute_portfolio_value_over_time(
                   fx_rate_cache, portfolio.positions, price_source, freq,
                   today, Pairs)
       IN /\ perf_call' = [op |-> "value_over_time", today |-> today,
                           freq |-> freq, values |-> r.values]
          /\ fx_rate_cache' = r.cache
    /\ UNCHANGED <<dbVars, fx_source, fx_call, fx_calls, replayVars, divVars,
                   liveVars, timeVars, sessionVars, price_source,
                   bench_call>>

\* pages/performance.py: compute_portfolio(conn), then
\* calculate_portfolio_xirr(positions) or
\* compute_portfolio_value_over_time(conn, positions, freq)
NextPerf ==
    \/ \E market \in PerfMarkets : ComputePortfolio({}, market)
    \/ \E today \in PerfTodays, solver \in SolverAnswers :
          CalculatePortfolioXirr(today, solver)
    \/ \E freq \in Frequencies, today \in PerfTodays :
          ComputePortfolioValueOverTime(freq, today)

SpecPerf == InitPerf /\ [][NextPerf]_vars

(***************************************************************************)
(* A session: transactions are added, edited, imported and deleted while   *)
(* the clock runs, and pages ask for the cached portfolio                  *)
(***************************************************************************)
MaxEdits == 2

\* the rows of the session runs
SessionRows ==
    [date : {1}, ticker : Tickers, side : {"BUY"}, price : {100},
     quantity : Quantities, fx_rate_to_sgd : {None}, fx_rate_override : {None}]

\* the machine's offset from UTC in seconds: UTC-5, UTC, UTC+8
UtcOffsets == {-5 * 3600, 0, 8 * 3600}

\* the microsecond of the next datetime.now(): later than that of every
\* stamp in the table
NextMicro ==
    1 + Cardinality({m \in 1..MaxEdits :
                        \E id \in DOMAIN updated_at : updated_at[id][4] >= m})

\* the session starts at 00:00 UTC of day 1 with an empty table
InitSession ==
    /\ DbIdle
    /\ FxIdle
    /\ DivIdle
    /\ LiveIdle
    /\ PerfIdle
    /\ SessionIdle
    /\ now = SecondsPerDay
    /\ utc_offset \in UtcOffsets
    /\ txns = <<>>
    /\ position = EmptyPosition

\* services/excel_service.py : upsert_transaction(conn, txn) for one row of
\* the sheet; a stored row with the same key gets updated_at = datetime('now')
UpsertTransaction(txn) ==
    IF ExistingId(db_transactions, txn) = None
    THEN InsertTransaction(txn)
    ELSE /\ updated_at' = [updated_at EXCEPT
                              ![ExistingId(db_transactions, txn)] =
                                  SqliteStamp(now)]
         /\ UNCHANGED <<dbVars, replayVars, fxVars, divVars, liveVars,
                        timeVars, session_state, cached_call, perfVars>>

\* pages/transactions.py : the Update button; an edit onto the key of another
\* row is rejected by the table
UpdateTransaction(txn_id, price, quantity) ==
    /\ \E r \in db_transactions : r.id = txn_id
    /\ \A r, e \in db_transactions :
          r.id # txn_id /\ e.id = txn_id =>
             ~SameUniqueKey(r, [e EXCEPT !.price = price,
                                         !.quantity = quantity])
    /\ NextMicro <= MaxEdits
    /\ db_transactions' = update_transaction(db_transactions, txn_id, price,
                                             quantity)
    /\ updated_at' = [updated_at EXCEPT
                         ![txn_id] = PythonStamp(now, utc_offset, NextMicro)]
    /\ UNCHANGED <<next_id, portfolio, replayVars, fxVars, divVars, liveVars,
                   timeVars, session_state, cached_call, perfVars>>

\* f"portfolio_{brokers}_{tickers}_{include_dividends}"
CacheKey(brokers, tickers) == <<"portfolio", brokers, tickers, TRUE>>

\* get_cached_portfolio(conn, brokers, tickers): a stored entry of the same
\* key, date and fingerprint is returned; otherwise compute_portfolio is
\* called with include_dividends, a keyword it does not take, so the call
\* raises TypeError before anything is stored
get_cached_portfolio(state, brokers, tickers, today, current_fp) ==
    IF /\ CacheKey(brokers, tickers) \in DOMAIN state
       /\ state[CacheKey(brokers, tickers)].date = today
       /\ state[CacheKey(brokers, tickers)].fp = current_fp
    THEN [outcome |-> "cached", state |-> state]
    ELSE [outcome |-> "TypeError", state |-> state]

\* datetime.now().strftime("%Y-%m-%d")
LocalDate == (now + utc_offset) \div SecondsPerDay

\* a page asks for the portfolio
GetCachedPortfolio(brokers, tickers) ==
    /\ cached_call' =
          [called |-> TRUE, brokers |-> brokers, tickers |-> tickers,
           outcome |-> get_cached_portfolio(
                          session_state, brokers, tickers, LocalDate,
                          get_transaction_fingerprint(db_transactions,
                                                      updated_at)).outcome]
    /\ session_state' =
          get_cached_portfolio(session_state, brokers, tickers, LocalDate,
                               get_transaction_fingerprint(db_transactions,
                                                           updated_at)).state
    /\ UNCHANGED <<dbVars, replayVars, fxVars, divVars, liveVars, timeVars,
                   updated_at, perfVars>>

NextSession ==
    \/ \E txn \in SessionRows : InsertTransaction(txn)
    \/ \E txn \in SessionRows : UpsertTransaction(txn)
    \/ \E txn_id \in 1..MaxId, price \in {100}, quantity \in Quantities :
          UpdateTransaction(txn_id, price, quantity)
    \/ \E txn_id \in 1..MaxId : DeleteTransaction(txn_id)
    \/ \E tickers \in TickerFilters : GetCachedPortfolio({}, tickers)
    \/ Tick

SpecSession == InitSession /\ [][NextSession]_vars

(***************************************************************************)
(* The benchmark comparison of the performance page                        *)
(***************************************************************************)
\* the days on which the price source has a close for the benchmark
BenchmarkDayChoices == {{}, 1..(MaxDate + 1), 2..(MaxDate + 1)}

\* the currency yfinance reports for the benchmark (VOO is quoted in USD,
\* ES3.SI in SGD)
BenchmarkCurrencies == {"USD", "SGD"}

\* the live quote of the benchmark and of its currency: the block raises,
\* or both are fetched
BenchmarkLiveAnswers ==
    {[raises |-> TRUE, price |-> 0, fx |-> 1],
     [raises |-> FALSE, price |-> 150, fx |-> 2]}

\* the place of a row in a ledger kept by date: earlier dates first, then by
\* ticker, buys before sells, smaller quantities first
LedgerRank(row) ==
    8 * row.date + 4 * (IF row.ticker = "AAA" THEN 0 ELSE 1)
        + 2 * (IF row.side = "BUY" THEN 0 ELSE 1)
        + (IF row.quantity = 10 THEN 0 ELSE 1)

\* the insertions of the benchmark runs: the rows are entered in ledger order
BenchInsertions ==
    {s \in PerfInsertions :
        \A i \in 1..(Len(s) - 1) : LedgerRank(s[i]) < LedgerRank(s[i + 1])}

\* the transactions are stored; the benchmark page has not been rendered
InitBench ==
    /\ fx_source = FxDays
    /\ \E s \in BenchInsertions :
          /\ db_transactions = TableOf(s, 1)
          /\ next_id = Len(s) + 1
          /\ updated_at = InsertedAt(TableOf(s, 1), 0)
    /\ portfolio = NoPortfolio
    /\ session_state = [k \in {} |-> <<>>]
    /\ cached_call = NoCachedCall
    /\ LiveIdle
    /\ TimeIdle
    /\ price_source \in BenchmarkDayChoices
    /\ perf_call = NoPerfCall
    /\ bench_call = NoBenchCall
    /\ DivIdle
    /\ fx_rate_cache = EmptyCache
    /\ fx_call = NoCall
    /\ fx_calls = 0
    /\ txns = <<>>
    /\ position = EmptyPosition

\* pages/performance.py : calculate_benchmark_xirr(conn, positions, bm)
CalculateBenchmarkXirr(bench_currency, today, live, solver) ==
    /\ portfolio.called
    /\ ~bench_call.xirr.called
    /\ \/ perf_call.op = "none"
       \/ /\ perf_call.op = "xirr"
          /\ perf_call.today = today
          /\ perf_call.solver = solver
    /\ LET r == calculate_benchmark_xirr(
                   fx_rate_cache, portfolio.positions, price_source,
                   bench_currency, today, live, solver, Pairs)
       IN /\ bench_call' =
                [bench_call EXCEPT
                    !.xirr = [called |-> TRUE, bench_currency |-> bench_currency,
                              today |-> today, live |-> live,
                              solver |-> solver, steps |-> r.steps,
                              shares |-> r.shares, flows |-> r.flows,
                              result |-> r.result]]
          /\ fx_rate_cache' = r.cache
    /\ UNCHANGED <<dbVars, fx_source, fx_call, fx_calls, replayVars, divVars,
                   liveVars, timeVars, sessionVars, price_source, perf_call>>

\* pages/performance.py : compute_benchmark_value_over_time(conn, positions,
\* bm, freq=freq_code), later in the same rendering of the page
ComputeBenchmarkValueOverTime(freq) ==
    /\ portfolio.called
    /\ bench_call.xirr.called
    /\ ~bench_call.series.called
    /\ perf_call.op = "none"
    /\ LET r == compute_benchmark_value_over_time(
                   fx_rate_cache, portfolio.positions, price_source,
                   bench_call.xirr.bench_currency, freq, bench_call.xirr.today,
                   Pairs)
       IN /\ bench_call' =
                [bench_call EXCEPT
                    !.series = [called |-> TRUE, freq |-> freq,
                                values |-> r.values]]
          /\ fx_rate_cache' = r.cache
    /\ UNCHANGED <<dbVars, fx_source, fx_call, fx_calls, replayVars, divVars,
                   liveVars, timeVars, sessionVars, price_source, perf_call>>

\* pages/performance.py rendered again: compute_portfolio(conn) over the same
\* table, with the same answers of the market and of the FX source, on the
\* FX cache the first call left
ComputePortfolioAgain(market) ==
    /\ portfolio.called
    /\ perf_call.op = "none"
    /\ ~bench_call.xirr.called
    /\ LET r == compute_portfolio(db_transactions, fx_rate_cache,
                                  portfolio.tickers, market, Pairs)
       IN /\ perf_call' = [op |-> "replay", positions |-> r.positions,
                           cache_before |-> fx_rate_cache]
          /\ fx_rate_cache' = r.cache
    /\ UNCHANGED <<dbVars, fx_source, fx_call, fx_calls, replayVars, divVars,
                   liveVars, timeVars, sessionVars, price_source, bench_call>>

\* the only market answer of the benchmark runs
QuotedMarket ==
    [dividends |-> [AAA |-> [raises |-> FALSE, history |-> <<<<2, 20>>>>],
                    BBB |-> [raises |-> FALSE, history |-> <<>>]],
     price |-> [AAA |-> [raises |-> FALSE, price |-> 150],
                BBB |-> [raises |-> FALSE, price |-> 150]],
     live_fx |-> 2]

\* pages/performance.py: compute_portfolio(conn), then the portfolio XIRR and
\* the benchmark XIRR of the same day, or the benchmark XIRR followed by the
\* benchmark series
NextBench ==
    \/ ComputePortfolio({}, QuotedMarket)
    \/ ComputePortfolioAgain(QuotedMarket)
    \/ /\ ~bench_call.xirr.called
       /\ \E today \in PerfTodays, solver \in SolverAnswers :
             CalculatePortfolioXirr(today, solver)
    \/ \E bench_currency \in BenchmarkCurrencies, today \in PerfTodays,
          live \in BenchmarkLiveAnswers, solver \in SolverAnswers :
          CalculateBenchmarkXirr(bench_currency, today, live, solver)
    \/ \E freq \in Frequencies : ComputeBenchmarkValueOverTime(freq)

SpecBench == InitBench /\ [][NextBench]_vars

(***************************************************************************)
(* compute_portfolio while parts of the market data source fail            *)
(***************************************************************************)
\* the transactions are stored in ledger order and nothing was computed
InitOutage ==
    /\ fx_source = FxDays
    /\ \E s \in BenchInsertions :
          /\ db_transactions = TableOf(s, 1)
          /\ next_id = Len(s) + 1
          /\ updated_at = InsertedAt(TableOf(s, 1), 0)
    /\ portfolio = NoPortfolio
    /\ session_state = [k \in {} |-> <<>>]
    /\ cached_call = NoCachedCall
    /\ LiveIdle
    /\ TimeIdle
    /\ PerfIdle
    /\ DivIdle
    /\ fx_rate_cache = EmptyCache
    /\ fx_call = NoCall
    /\ fx_calls = 0
    /\ txns = <<>>
    /\ position = EmptyPosition

\* compute_portfolio(conn) under every answer of the market: per ticker the
\* dividend block raises or not, and the live-price block raises, returns
\* the price 0 of a failed fetch, or returns a price
NextOutage == \E market \in MarketAnswers : ComputePortfolio({}, market)

SpecOutage == InitOutage /\ [][NextOutage]_vars

(***************************************************************************)
(* Reference quantities of a transaction list, computed from the list      *)
(* alone (independent of the lot queue)                                    *)
(***************************************************************************)
RECURSIVE BuyCostNative(_)
\* cumulative native cost of every BUY of the list
BuyCostNative(ts) ==
    IF ts = <<>> THEN 0
    ELSE (IF Head(ts).side = "BUY" THEN Head(ts).quantity * Head(ts).price ELSE 0)
         + BuyCostNative(Tail(ts))

RECURSIVE BuyQuantity(_)
\* sum of all BUY quantities of the list
BuyQuantity(ts) ==
    IF ts = <<>> THEN 0
    ELSE (IF Head(ts).side = "BUY" THEN Head(ts).quantity ELSE 0)
         + BuyQuantity(Tail(ts))

RECURSIVE SellApplied(_, _)
\* sum of the SELL quantities actually applied, min(quantity, shares held),
\* replaying the list from `held` shares
SellApplied(ts, held) ==
    IF ts = <<>> THEN 0
    ELSE IF Head(ts).side = "BUY"
         THEN SellApplied(Tail(ts), held + Head(ts).quantity)
         ELSE Min(Head(ts).quantity, held)
              + SellApplied(Tail(ts), held - Min(Head(ts).quantity, held))

\* sum of the closed-lot quantities of a position
ClosedQuantity(pos) ==
    SumSeq(pos.closed_lots, [c \in Range(pos.closed_lots) |-> c.quantity])

\* realized trading P&L in native currency: ClosedLot.realized_pnl_sgd with
\* both FX legs left out
realized_pnl_native(pos) ==
    SumSeq(pos.closed_lots,
           [c \in Range(pos.closed_lots) |->
               c.quantity * (c.sell_price_native - c.buy_price_native)])

\* the position before the last replayed transaction
PositionBeforeLast == compute_position(SubSeq(txns, 1, Len(txns) - 1))

LastTxn == txns[Len(txns)]

\* the step from the current state replays the SELL t
SellStep(t) == t.side = "SELL" /\ txns' = Append(txns, t)

(***************************************************************************)
(* C1: after every prefix of a date-ascending BUY/SELL list, shares >= 0   *)
(* and 0 <= remaining open cost basis <= cumulative cost of every BUY.     *)
(***************************************************************************)
C1_CostBasisBounded ==
    /\ shares(position) >= 0
    /\ 0 <= open_cost_native(position)
    /\ open_cost_native(position) <= BuyCostNative(txns)

\* a partial sale happened: part of the BUY cost is still open
C1_Witness ==
    /\ txns # <<>>
    /\ LastTxn.side = "SELL"
    /\ shares(position) > 0
    /\ 0 < open_cost_native(position)
    /\ open_cost_native(position) < BuyCostNative(txns)

(***************************************************************************)
(* C2: a SELL while shares > 0 uses the average-cost method: realized P&L  *)
(* grows by (price - avg_cost) x sell_qty and the remaining cost basis     *)
(* shrinks by avg_cost x sell_qty, avg_cost = cost basis / shares before   *)
(* the sell (both sides multiplied by shares to stay in the integers).     *)
(***************************************************************************)
C2_AverageCostSell ==
    [][\A t \in TxnInputs :
         (SellStep(t) /\ shares(position) > 0) =>
            LET held == shares(position)
                basis == open_cost_native(position)
                sell_qty == Min(t.quantity, held)
            IN /\ (realized_pnl_native(position') - realized_pnl_native(position))
                     * held = (t.price * held - basis) * sell_qty
               /\ (basis - open_cost_native(position')) * held = basis * sell_qty
      ]_vars

(***************************************************************************)
(* C4: the total-investment figure is the cumulative cost of every BUY     *)
(* replayed so far: no replay step decreases it and a SELL leaves it       *)
(* unchanged.                                                              *)
(***************************************************************************)
C4_TotalInvestmentMonotone ==
    [][/\ total_investment_sgd(position') >= total_investment_sgd(position)
       /\ \A t \in TxnInputs :
            SellStep(t) =>
               total_investment_sgd(position') = total_investment_sgd(position)
      ]_vars

(***************************************************************************)
(* C5: over-sell clamp: a SELL of more than the held shares closes exactly *)
(* the held shares and leaves 0 shares; a SELL with 0 shares held changes  *)
(* nothing of the position (lots, closed lots, cost basis, realized P&L).  *)
(***************************************************************************)
C5_OverSellClamp ==
    [][\A t \in TxnInputs :
         SellStep(t) =>
            /\ shares(position') >= 0
            /\ t.quantity > shares(position) =>
                 /\ shares(position') = 0
                 /\ ClosedQuantity(position') - ClosedQuantity(position)
                      = shares(position)
            /\ shares(position) = 0 =>
                 /\ position' = position
                 /\ open_cost_native(position') = open_cost_native(position)
                 /\ realized_pnl_from_trades_sgd(position')
                      = realized_pnl_from_trades_sgd(position)
      ]_vars

\* a SELL beyond the held shares and a SELL with nothing held were replayed
C5_Witness ==
    /\ Len(txns) = 3
    /\ txns[2].side = "SELL" /\ txns[3].side = "SELL"
    /\ shares(compute_position(SubSeq(txns, 1, 1))) > 0
    /\ txns[2].quantity > shares(compute_position(SubSeq(txns, 1, 1)))
    /\ shares(compute_position(SubSeq(txns, 1, 2))) = 0
    /\ shares(position) = 0

(***************************************************************************)
(* C6 (as stated): closed-lot quantities + shares == BUY quantities -      *)
(* SELL quantities actually applied.                                       *)
(***************************************************************************)
C6_Original ==
    ClosedQuantity(position) + shares(position)
        = BuyQuantity(txns) - SellApplied(txns, 0)

(***************************************************************************)
(* C6 (amended): shares == BUY quantities - SELL quantities actually       *)
(* applied, and the closed-lot quantities sum to the SELL quantities       *)
(* actually applied (so closed-lot quantities + shares == BUY quantities). *)
(***************************************************************************)
C6_ShareConservation ==
    /\ shares(position) = BuyQuantity(txns) - SellApplied(txns, 0)
    /\ ClosedQuantity(position) = SellApplied(txns, 0)

\* a SELL was clamped (applied less than its quantity) and a later BUY is held
C6_Witness ==
    /\ \E i \in DOMAIN txns :
         /\ txns[i].side = "SELL"
         /\ i > 1
         /\ txns[i].quantity > shares(compute_position(SubSeq(txns, 1, i - 1)))
         /\ shares(compute_position(SubSeq(txns, 1, i - 1))) > 0
    /\ shares(position) > 0
    /\ ClosedQuantity(position) > 0

(***************************************************************************)
(* C8: the rate resolved from the source for a historical date D is the    *)
(* closest close observed on or before D, and no rate cached under D was   *)
(* observed on a day later than D.                                         *)
(***************************************************************************)
C8_OnOrBeforeOnly ==
    /\ (fx_call.op = "get" /\ fx_call.via = "source") =>
          LET seen == {x \in fx_source : x <= fx_call.date} IN
             /\ seen # {}
             /\ fx_call.rate
                  = SourceClose(fx_call.from, fx_call.to, SetMax(seen))
    /\ \A k \in DOMAIN fx_rate_cache :
          \A x \in FxDays :
             x > k[1] => fx_rate_cache[k] # SourceClose(k[2], k[3], x)

(***************************************************************************)
(* C9: historical FX rates are immutable once cached: no resolver          *)
(* operation (get_fx_rate, triangulation, prefetch_fx_rates) removes or    *)
(* changes a stored rate, and a get_fx_rate call for a stored key returns  *)
(* the stored rate without asking the source.                              *)
(***************************************************************************)
C9_CachedRatesImmutable ==
    [][/\ \A k \in DOMAIN fx_rate_cache :
             /\ k \in DOMAIN fx_rate_cache'
             /\ fx_rate_cache'[k] = fx_rate_cache[k]
       /\ (/\ fx_calls' = fx_calls + 1
           /\ fx_call'.op = "get"
           /\ <<fx_call'.date, fx_call'.from, fx_call'.to>>
                 \in DOMAIN fx_rate_cache) =>
             /\ fx_call'.rate
                  = fx_rate_cache[<<fx_call'.date, fx_call'.from, fx_call'.to>>]
             /\ fx_call'.fetched = {}
      ]_vars

(***************************************************************************)
(* C10: FX triangulation: when the pair is not cached, the source gives no *)
(* direct rate and neither currency is USD, get_fx_rate returns            *)
(* rate(from->USD) x rate(USD->to), stores the product under               *)
(* (date, from, to), and the next call for the pair is a cache hit.        *)
(***************************************************************************)
\* the rate the resolver holds for a leg after the call (1 when the leg
\* could not be resolved)
LegRate(date, from, to) ==
    IF <<date, from, to>> \in DOMAIN fx_rate_cache
    THEN fx_rate_cache[<<date, from, to>>] ELSE 1

C10_Triangulation ==
    (/\ fx_call.op = "get"
     /\ fx_call.from # fx_call.to
     /\ fx_call.before = None
     /\ fx_call.direct = None
     /\ fx_call.from # "USD" /\ fx_call.to # "USD") =>
        /\ fx_call.rate = LegRate(fx_call.date, fx_call.from, "USD")
                            * LegRate(fx_call.date, "USD", fx_call.to)
        /\ get_cached_rate(fx_rate_cache, fx_call.date, fx_call.from, fx_call.to)
             = fx_call.rate
        /\ \A ok \in SUBSET RequestedPairs(fx_call.from, fx_call.to) :
             LET next == get_fx_rate(fx_rate_cache, fx_call.from, fx_call.to,
                                     fx_call.date, ok)
             IN /\ next.via = "cache"
                /\ next.rate = fx_call.rate
                /\ next.fetched = {}
                /\ next.cache = fx_rate_cache

\* a rate was composed from two legs the source answered for
C10_Witness ==
    /\ fx_call.op = "get"
    /\ fx_call.via = "triangulated"
    /\ <<fx_call.date, fx_call.from, "USD">> \in DOMAIN fx_rate_cache
    /\ <<fx_call.date, "USD", fx_call.to>> \in DOMAIN fx_rate_cache
    /\ fx_call.rate > LegRate(fx_call.date, fx_call.from, "USD")
    /\ fx_call.rate > LegRate(fx_call.date, "USD", fx_call.to)

(***************************************************************************)
(* C7: for every ex-dividend date, shares_held is (sum of BUY quantities)  *)
(* - (sum of SELL quantities) over exactly the transactions dated on or    *)
(* before the ex-date, later transactions have no effect, and              *)
(* gross_native = shares_held x div_per_share.                             *)
(***************************************************************************)
RECURSIVE NetQuantityUpTo(_, _)
\* BUY quantities minus SELL quantities of the transactions dated <= ex_date
NetQuantityUpTo(ts, ex_date) ==
    IF ts = <<>> THEN 0
    ELSE (IF Head(ts).date <= ex_date
          THEN (IF Head(ts).side = "BUY" THEN Head(ts).quantity
                ELSE 0 - Head(ts).quantity)
          ELSE 0)
         + NetQuantityUpTo(Tail(ts), ex_date)

C7_SharesHeldOnExDate ==
    div_input.called =>
       /\ \A i \in DOMAIN div_result.records :
            LET r == div_result.records[i] IN
               /\ r.shares_held
                    = NetQuantityUpTo(div_input.transactions, r.ex_date)
               /\ r.gross_native = r.shares_held * r.div_per_share
               /\ <<r.ex_date, r.div_per_share>>
                    \in Range(div_input.dividend_history)
       /\ \A j \in DOMAIN div_input.dividend_history :
            LET ex_date == div_input.dividend_history[j][1] IN
               NetQuantityUpTo(div_input.transactions, ex_date) > 0 =>
                  \E i \in DOMAIN div_result.records :
                     div_result.records[i].ex_date = ex_date

\* a record whose ex-date has a transaction on it and a later one after it,
\* from a list that was not handed over in date order
C7_Witness ==
    /\ div_input.called
    /\ \E i \in DOMAIN div_result.records :
          LET r == div_result.records[i] IN
             /\ \E a \in DOMAIN div_input.transactions :
                   div_input.transactions[a].date = r.ex_date
             /\ \E a \in DOMAIN div_input.transactions :
                   div_input.transactions[a].date > r.ex_date
    /\ div_input.transactions # SortedByDate(div_input.transactions)

(***************************************************************************)
(* C3: in compute_portfolio the transactions of each ticker reach          *)
(* compute_position in ascending date order, and transactions of the same  *)
(* ticker and date in insertion order (ascending row id).                  *)
(***************************************************************************)
C3_ReplayOrder ==
    \A n \in DOMAIN portfolio.positions :
       LET replayed == portfolio.positions[n].transactions IN
          \A i \in DOMAIN replayed : \A j \in DOMAIN replayed :
             i < j =>
                /\ replayed[i].ticker = portfolio.positions[n].ticker
                /\ replayed[i].date <= replayed[j].date
                /\ replayed[i].date = replayed[j].date =>
                      replayed[i].id < replayed[j].id

(***************************************************************************)
(* C11: the effective FX rate of a transaction is a positive               *)
(* fx_rate_override if present, else a positive stored fx_rate_to_sgd,     *)
(* else get_fx_rate(currency, base, transaction date); with an override    *)
(* (or a stored rate) the source is not asked and the cache is untouched.  *)
(***************************************************************************)
C11_EffectiveFxPrecedence ==
    [][fx_call'.op = "effective" /\ fx_calls' = fx_calls + 1 =>
         LET c == fx_call' IN
            IF c.fx_rate_override # None /\ c.fx_rate_override > 0
            THEN /\ c.rate = c.fx_rate_override
                 /\ c.fetched = {}
                 /\ fx_rate_cache' = fx_rate_cache
            ELSE IF c.fx_rate_to_sgd # None /\ c.fx_rate_to_sgd > 0
            THEN /\ c.rate = c.fx_rate_to_sgd
                 /\ c.fetched = {}
                 /\ fx_rate_cache' = fx_rate_cache
            ELSE \E ok \in SUBSET RequestedPairs(c.from, c.to) :
                    /\ c.rate = get_fx_rate(fx_rate_cache, c.from, c.to,
                                            c.date, ok).rate
                    /\ c.fetched = get_fx_rate(fx_rate_cache, c.from, c.to,
                                               c.date, ok).fetched
                    /\ fx_rate_cache' = get_fx_rate(fx_rate_cache, c.from,
                                                    c.to, c.date, ok).cache]_vars

\* an override won over a stored rate and over a different rate that the
\* cache holds for the transaction's currency and date
C11_Witness ==
    /\ fx_call.op = "effective"
    /\ fx_call.fx_rate_override > 0
    /\ fx_call.fx_rate_to_sgd > 0
    /\ fx_call.fx_rate_to_sgd # fx_call.fx_rate_override
    /\ fx_call.before # None
    /\ fx_call.before # fx_call.rate
    /\ fx_call.rate = fx_call.fx_rate_override

(***************************************************************************)
(* C12: when a rate cannot be resolved at all (the source fails for the    *)
(* direct pair and for both triangulation legs, and nothing is cached),    *)
(* get_fx_rate and get_live_fx_rate return 1.0; when from = to they        *)
(* return 1.0 without reading the cache or asking the source.              *)
(***************************************************************************)
\* neither triangulation leg of the pair has a rate for the date
LegsUnresolved(cache, date, from, to) ==
    (from # "USD" /\ to # "USD") =>
       /\ <<date, from, "USD">> \notin DOMAIN cache
       /\ <<date, "USD", to>> \notin DOMAIN cache

C12_UnresolvableIsOne ==
    [][/\ (fx_calls' = fx_calls + 1 /\ live_call' = live_call) =>
            LET c == fx_call' IN
               /\ c.from = c.to =>
                     /\ c.rate = 1
                     /\ c.fetched = {}
                     /\ fx_rate_cache' = fx_rate_cache
               /\ (/\ c.from # c.to
                   /\ c.before = None
                   /\ c.direct = None
                   /\ LegsUnresolved(fx_rate_cache', c.date, c.from, c.to)) =>
                     c.rate = 1
       /\ (live_call'.called /\ ~live_call.called) =>
            LET l == live_call' IN
               /\ l.from = l.to =>
                     /\ l.rate = 1
                     /\ l.queried = {}
                     /\ fx_rate_cache' = fx_rate_cache
               /\ (l.from # l.to /\ l.answered = {}) => l.rate = 1]_vars

\* both resolvers were asked for a pair without USD, the source failed for
\* the pair and for both legs, and both returned 1
C12_Witness ==
    /\ fx_call.op = "get"
    /\ fx_call.from # "USD" /\ fx_call.to # "USD" /\ fx_call.from # fx_call.to
    /\ fx_call.before = None
    /\ fx_call.direct = None
    /\ Cardinality(fx_call.fetched) = 3
    /\ LegsUnresolved(fx_rate_cache, fx_call.date, fx_call.from, fx_call.to)
    /\ fx_call.rate = 1
    /\ live_call.called
    /\ live_call.from # "USD" /\ live_call.to # "USD"
    /\ live_call.from # live_call.to
    /\ Cardinality(live_call.queried) = 3
    /\ live_call.answered = {}
    /\ live_call.rate = 1

(***************************************************************************)
(* C13: unrealized P&L in base currency is market value minus exposure,    *)
(* both at the live FX rate: shares x live_price x live_fx - remaining     *)
(* native cost basis x live_fx, and 0 when no shares are held.             *)
(***************************************************************************)
C13_UnrealizedAtLiveFx ==
    \A n \in DOMAIN portfolio.positions :
       LET pos == portfolio.positions[n].position IN
          unrealized_pnl_sgd(pos)
            = IF shares(pos) = 0 THEN 0
              ELSE shares(pos) * pos.live_price * pos.live_fx_rate
                     - open_cost_native(pos) * pos.live_fx_rate

\* the XIRR cash flows of the current call
XirrCall == perf_call.op = "xirr"

RECURSIVE FlowSumOn(_, _, _)
\* the sum of the outflows (sign = -1) or of the inflows (sign = 1) dated d
FlowSumOn(flows, d, sign) ==
    IF flows = <<>> THEN 0
    ELSE (IF Head(flows)[1] = d
             /\ (IF sign < 0 THEN Head(flows)[2] < 0 ELSE Head(flows)[2] >= 0)
          THEN Head(flows)[2] ELSE 0)
         + FlowSumOn(Tail(flows), d, sign)

RECURSIVE BuyCostOn(_, _)
\* quantity * price * fx summed over the BUYs of the list dated d
BuyCostOn(ts, d) ==
    IF ts = <<>> THEN 0
    ELSE (IF Head(ts).side = "BUY" /\ Head(ts).date = d
          THEN Head(ts).quantity * Head(ts).price * Head(ts).effective_fx_rate
          ELSE 0)
         + BuyCostOn(Tail(ts), d)

RECURSIVE SellProceedsOn(_, _, _, _)
\* price * fx summed over the SELLs of the list dated d, times the quantity
\* of the SELL (applied = FALSE) or times the part of it that the shares
\* held before it cover (applied = TRUE); held is the shares before the list
SellProceedsOn(ts, held, d, applied) ==
    IF ts = <<>> THEN 0
    ELSE IF Head(ts).side = "BUY"
    THEN SellProceedsOn(Tail(ts), held + Head(ts).quantity, d, applied)
    ELSE (IF Head(ts).date = d
          THEN (IF applied THEN Min(Head(ts).quantity, held)
                ELSE Head(ts).quantity)
               * Head(ts).price * Head(ts).effective_fx_rate
          ELSE 0)
         + SellProceedsOn(Tail(ts), held - Min(Head(ts).quantity, held), d,
                          applied)

RECURSIVE DividendsOn(_, _)
\* net_sgd summed over the dividend records with ex-date d
DividendsOn(records, d) ==
    IF records = <<>> THEN 0
    ELSE (IF Head(records).ex_date = d THEN Head(records).net_sgd ELSE 0)
         + DividendsOn(Tail(records), d)

\* the current market value of the entry if shares are held and d is today
TerminalOn(entry, d, today) ==
    IF d = today /\ shares(entry.position) > 0
    THEN current_value_sgd(entry.position) ELSE 0

RECURSIVE ExpectedOutflowOn(_, _)
ExpectedOutflowOn(positions, d) ==
    IF positions = <<>> THEN 0
    ELSE -BuyCostOn(Head(positions).transactions, d)
         + ExpectedOutflowOn(Tail(positions), d)

RECURSIVE ExpectedInflowOn(_, _, _, _)
ExpectedInflowOn(positions, d, today, applied) ==
    IF positions = <<>> THEN 0
    ELSE SellProceedsOn(Head(positions).transactions, 0, d, applied)
         + DividendsOn(Head(positions).position.dividend_records, d)
         + TerminalOn(Head(positions), d, today)
         + ExpectedInflowOn(Tail(positions), d, today, applied)

\* per date, the summed flows equal the sums over the transactions, the
\* dividend records and the terminal values
FlowsMatch(applied) ==
    \A d \in 1..(MaxDate + 1) :
       /\ FlowSumOn(perf_call.flows, d, -1)
             = ExpectedOutflowOn(portfolio.positions, d)
       /\ FlowSumOn(perf_call.flows, d, 1)
             = ExpectedInflowOn(portfolio.positions, d, perf_call.today, applied)

\* the flows dated today, when today is later than every transaction and
\* ex-date, are one per ticker with shares held
OneTerminalPerHolding ==
    perf_call.today > MaxDate =>
       Cardinality({i \in DOMAIN perf_call.flows :
                       perf_call.flows[i][1] = perf_call.today})
          = Cardinality({i \in DOMAIN portfolio.positions :
                            shares(portfolio.positions[i].position) > 0})


(***************************************************************************)
(* C14 as stated: the XIRR cash flows are -(qty*price*fx) per BUY,         *)
(* +(qty*price*fx) per SELL with the SELL's whole quantity, +net_sgd per   *)
(* dividend on its ex-date and one terminal inflow per ticker with shares  *)
(* held; per date the summed flows equal the sums over the transactions.   *)
(***************************************************************************)
C14_FlowsUseWholeSellQuantity ==
    XirrCall => FlowsMatch(FALSE) /\ OneTerminalPerHolding

(***************************************************************************)
(* C14 amended: as above, with the inflow of a SELL computed from the      *)
(* quantity the replay applied (the SELL's quantity capped at the shares   *)
(* held before it), so that an over-sold SELL adds only its covered part   *)
(* and a SELL with nothing held adds no flow.                              *)
(***************************************************************************)
C14_FlowsUseAppliedSellQuantity ==
    XirrCall => FlowsMatch(TRUE) /\ OneTerminalPerHolding

\* a SELL of more than the shares held that closes a lot, followed by a BUY
\* whose shares are still held when the flows are built
C14_Witness ==
    /\ XirrCall
    /\ perf_call.today > MaxDate
    /\ \E i \in DOMAIN portfolio.positions :
          /\ shares(portfolio.positions[i].position) > 0
          /\ portfolio.positions[i].position.closed_lots # <<>>
          /\ \E d \in Dates :
                SellProceedsOn(portfolio.positions[i].transactions, 0, d, TRUE)
                   < SellProceedsOn(portfolio.positions[i].transactions, 0, d,
                                    FALSE)

\* get_transaction_fingerprint(conn) in the current state
Fingerprint == get_transaction_fingerprint(db_transactions, updated_at)

(***************************************************************************)
(* C15: the transaction fingerprint (count, max id, max updated_at)        *)
(* changes on every add, edit and delete, so that a cached portfolio is    *)
(* returned only while the transaction set is unchanged.                   *)
(***************************************************************************)
C15_FingerprintChangesOnEveryChange ==
    [][(db_transactions' # db_transactions \/ updated_at' # updated_at)
          => Fingerprint' # Fingerprint]_vars

\* the ex-dates of the records returned
RecordedExDates == {div_result.records[i].ex_date : i \in DOMAIN div_result.records}

(***************************************************************************)
(* C16: calculate_dividends_received emits no record for an ex-date on     *)
(* which the shares held (BUY minus SELL quantities dated on or before it) *)
(* are <= 0: every record has shares_held > 0, and an ex-date with no      *)
(* transaction on or before it has no record.                              *)
(***************************************************************************)
C16_NoRecordWithoutShares ==
    div_input.called =>
       /\ \A i \in DOMAIN div_result.records :
             div_result.records[i].shares_held > 0
       /\ \A j \in DOMAIN div_input.dividend_history :
            LET ex_date == div_input.dividend_history[j][1] IN
               /\ NetQuantityUpTo(div_input.transactions, ex_date) <= 0
                     => ex_date \notin RecordedExDates
               /\ (\A a \in DOMAIN div_input.transactions :
                      div_input.transactions[a].date > ex_date)
                     => ex_date \notin RecordedExDates

\* a record for one ex-date, and a later ex-date that has none because the
\* shares bought before it were all sold on or before it
C16_Witness ==
    /\ div_input.called
    /\ div_result.records # <<>>
    /\ \E j \in DOMAIN div_input.dividend_history :
          /\ NetQuantityUpTo(div_input.transactions,
                             div_input.dividend_history[j][1]) = 0
          /\ \E a \in DOMAIN div_input.transactions :
                div_input.transactions[a].date
                   <= div_input.dividend_history[j][1]
          /\ div_input.dividend_history[j][1] \notin RecordedExDates

\* the withholding rate in percent that config.py lists for the countries of
\* the ticker profiles
ListedWhtRate(country) ==
    IF country = "SG" THEN 0 ELSE IF country = "CA" THEN 25 ELSE 30

(***************************************************************************)
(* C17: in every dividend record tax_native = gross_native x wht_rate with *)
(* the rate of the ticker's country (the DEFAULT rate for a country not    *)
(* listed), net_native = gross_native - tax_native and net_sgd =           *)
(* net_native x fx_rate; the total returned is the sum of net_sgd over the *)
(* returned records.                                                       *)
(***************************************************************************)
C17_RecordConsistent ==
    div_input.called =>
       /\ \A i \in DOMAIN div_result.records :
            LET r == div_result.records[i] IN
               /\ r.wht_rate = ListedWhtRate(div_input.country)
               /\ 100 * r.tax_native = r.gross_native * r.wht_rate
               /\ r.net_native = r.gross_native - r.tax_native
               /\ r.net_sgd = r.net_native * r.fx_rate
       /\ div_result.total
             = SumSeq(div_result.records,
                      [r \in Range(div_result.records) |-> r.net_sgd])

\* two records of a ticker of an unlisted country, taxed at the DEFAULT rate
\* and converted at a rate other than 1
C17_Witness ==
    /\ div_input.called
    /\ div_input.country \notin DOMAIN WITHHOLDING_TAX_RATES
    /\ Len(div_result.records) >= 2
    /\ \A i \in DOMAIN div_result.records :
          /\ div_result.records[i].tax_native > 0
          /\ div_result.records[i].fx_rate > 1

RECURSIVE RecordsUseResolver(_, _, _)
\* each record's fx_rate is what get_fx_rate answers for (currency -> base)
\* on the record's ex-date, the lookups made in the order of the records
RecordsUseResolver(cache, records, currency) ==
    records = <<>>
    \/ /\ Head(records).fx_rate
             = get_fx_rate(cache, currency, BASE_CURRENCY,
                           Head(records).ex_date, Pairs).rate
       /\ RecordsUseResolver(get_fx_rate(cache, currency, BASE_CURRENCY,
                                         Head(records).ex_date, Pairs).cache,
                             Tail(records), currency)

(***************************************************************************)
(* C18: the fx_rate of every dividend record is the rate the historical FX *)
(* resolver gives for (position currency -> base currency) on the record's *)
(* own ex-date; where the source has a close for every day, it is the      *)
(* close of the ex-date itself and of no other date.                       *)
(***************************************************************************)
C18_DividendFxOnExDate ==
    div_input.called =>
       /\ RecordsUseResolver(EmptyCache, div_result.records,
                             div_input.currency)
       /\ fx_source = FxDays /\ div_input.currency = "USD" =>
             \A i \in DOMAIN div_result.records :
                div_result.records[i].fx_rate
                   = SourceClose("USD", BASE_CURRENCY,
                                 div_result.records[i].ex_date)

\* records on two ex-dates of a foreign-currency ticker, converted at two
\* different rates
C18_Witness ==
    /\ div_input.called
    /\ div_input.currency # BASE_CURRENCY
    /\ \E i, j \in DOMAIN div_result.records :
          /\ div_result.records[i].ex_date # div_result.records[j].ex_date
          /\ div_result.records[i].fx_rate # div_result.records[j].fx_rate

\* the step is a get_live_fx_rate call that follows a call for the same pair
\* of two different currencies less than LIVE_FX_TTL seconds earlier
RepeatedLiveCallWithinTtl ==
    /\ live_call.called
    /\ fx_calls' = fx_calls + 1
    /\ live_call'.from = live_call.from
    /\ live_call'.to = live_call.to
    /\ live_call.from # live_call.to
    /\ live_call'.at - live_call.at < LIVE_FX_TTL

(***************************************************************************)
(* C19: a second get_live_fx_rate call for the same currency pair within   *)
(* the TTL returns the value of the first call and sends no request to the *)
(* live-quote source.                                                      *)
(***************************************************************************)
C19_LiveFxServedFromCache ==
    [][RepeatedLiveCallWithinTtl =>
          /\ live_call'.rate = live_call.rate
          /\ live_call'.queried = {}]_vars

\* the rows of the value-over-time frame of the current call
ValueCall == perf_call.op = "value_over_time"

\* price is the close of the ticker on the latest trading day on or before
\* grid_date
CloseOnOrBefore(ticker, price, grid_date) ==
    \E d \in price_source :
       /\ d <= grid_date
       /\ \A e \in price_source : e <= grid_date => e <= d
       /\ price = Close(ticker, d)

(***************************************************************************)
(* C20: in the value-over-time reconstruction the close used to value the  *)
(* holdings of a ticker at a grid date G is the close of the latest        *)
(* trading day on or before G, never a close dated after G.                *)
(***************************************************************************)
C20_PriceOnOrBeforeGridDate ==
    ValueCall =>
       \A i \in DOMAIN perf_call.values :
          \A j \in DOMAIN perf_call.values[i].priced :
             CloseOnOrBefore(perf_call.values[i].priced[j].ticker,
                             perf_call.values[i].priced[j].price,
                             perf_call.values[i].date)

(***************************************************************************)
(* C21  In the benchmark simulation of calculate_benchmark_xirr a SELL     *)
(* flow removes at most the simulated shares currently held, so            *)
(* benchmark_shares is never negative after any cash flow, and the         *)
(* proceeds recorded for the SELL are the shares actually sold times the   *)
(* benchmark price times the FX rate of the flow date: the smaller of the  *)
(* requested amount and the value of the whole simulated holding.          *)
(***************************************************************************)
BenchmarkSteps == bench_call.xirr.steps

\* the SGD value, in units of 1/ShareScale, of the simulated holding before
\* the step
HoldingValue(step) == step.before * step.bench_price * step.fx_rate

C21_BenchmarkSharesNeverNegative ==
    bench_call.xirr.called =>
        \A i \in 1..Len(BenchmarkSteps) :
            /\ BenchmarkSteps[i].before >= 0
            /\ BenchmarkSteps[i].after >= 0
            /\ BenchmarkSteps[i].side = "SELL" =>
                  /\ BenchmarkSteps[i].sold <= BenchmarkSteps[i].before
                  /\ BenchmarkSteps[i].after
                        = BenchmarkSteps[i].before - BenchmarkSteps[i].sold
                  /\ BenchmarkSteps[i].sold > 0 =>
                        /\ BenchmarkSteps[i].amount
                              = BenchmarkSteps[i].sold
                                   * BenchmarkSteps[i].bench_price
                                   * BenchmarkSteps[i].fx_rate
                        /\ BenchmarkSteps[i].amount
                              = Min(BenchmarkSteps[i].amt_sgd * ShareScale,
                                    HoldingValue(BenchmarkSteps[i]))

\* a SELL flow that asks for more than the simulated holding and is capped
C21_Witness ==
    /\ bench_call.xirr.called
    /\ \E i \in 1..Len(BenchmarkSteps) :
          /\ BenchmarkSteps[i].side = "SELL"
          /\ BenchmarkSteps[i].sold > 0
          /\ BenchmarkSteps[i].sold = BenchmarkSteps[i].before
          /\ BenchmarkSteps[i].amt_sgd * ShareScale
                > HoldingValue(BenchmarkSteps[i])

\* the integer share grid is exact: every rate divides ShareScale and every
\* price divides the flow amount
BenchmarkGridExact ==
    bench_call.xirr.called =>
        \A i \in 1..Len(BenchmarkSteps) :
            /\ ShareScale % BenchmarkSteps[i].fx_rate = 0
            /\ BenchmarkSteps[i].amt_sgd % BenchmarkSteps[i].bench_price = 0

(***************************************************************************)
(* C22  The share count that compute_benchmark_value_over_time holds at a  *)
(* grid date equals the benchmark_shares counter of                        *)
(* calculate_benchmark_xirr after it has processed the same cash flows     *)
(* dated on or before that grid date: both replays skip, cap and convert   *)
(* the flows identically.                                                  *)
(***************************************************************************)
RECURSIVE SharesAfterFlowsUpTo(_, _, _)
\* the counter of the XIRR simulation after its last step dated on or
\* before the grid date; `counter` is the counter before the first step
SharesAfterFlowsUpTo(steps, grid_d, counter) ==
    IF steps = <<>> THEN counter
    ELSE IF Head(steps).date > grid_d THEN counter
    ELSE SharesAfterFlowsUpTo(Tail(steps), grid_d, Head(steps).after)

BenchmarkSeries == bench_call.series.values

C22_SeriesSharesMatchXirrCounter ==
    (bench_call.xirr.called /\ bench_call.series.called) =>
        \A i \in 1..Len(BenchmarkSeries) :
            BenchmarkSeries[i].bench_shares
                = SharesAfterFlowsUpTo(BenchmarkSteps, BenchmarkSeries[i].date,
                                       0)

\* a series with a grid date between a buy and a later capped sell, and a
\* grid date after the sell, the holding differing between the two
C22_Witness ==
    /\ bench_call.xirr.called
    /\ bench_call.series.called
    /\ \E i, j \in 1..Len(BenchmarkSeries) :
          /\ i < j
          /\ BenchmarkSeries[i].bench_shares > 0
          /\ BenchmarkSeries[j].bench_shares
                # BenchmarkSeries[i].bench_shares
          /\ \E k \in 1..Len(BenchmarkSteps) :
                /\ BenchmarkSteps[k].side = "SELL"
                /\ BenchmarkSteps[k].sold > 0
                /\ BenchmarkSteps[k].date > BenchmarkSeries[i].date
                /\ BenchmarkSteps[k].date <= BenchmarkSeries[j].date

(***************************************************************************)
(* C23  calculate_portfolio_xirr and calculate_benchmark_xirr return None, *)
(* never a number, whenever fewer than two cash flows are available to the *)
(* solver or the solver fails (it raises, or it answers None).             *)
(***************************************************************************)
\* the solver cannot give a rate for these flows
NoSolution(flows, solver) ==
    \/ Len(flows) < 2
    \/ solver.raises
    \/ solver.value = None

C23_NoneWithoutSolution ==
    /\ perf_call.op = "xirr" =>
          (NoSolution(perf_call.flows, perf_call.solver)
              => perf_call.result = None)
    /\ bench_call.xirr.called =>
          (NoSolution(bench_call.xirr.flows, bench_call.xirr.solver)
              => bench_call.xirr.result = None)

\* both rates were asked for flows the solver was given, and the solver
\* raised
C23_Witness ==
    /\ perf_call.op = "xirr"
    /\ bench_call.xirr.called
    /\ Len(perf_call.flows) >= 2
    /\ Len(bench_call.xirr.flows) >= 2
    /\ bench_call.xirr.solver.raises
    /\ perf_call.result = None
    /\ bench_call.xirr.result = None

(***************************************************************************)
(* C24  Replaying the same transaction list twice against the same         *)
(* external data snapshot yields identical Position values (shares, open   *)
(* lots, closed lots, total investment, realized and unrealized P&L): the  *)
(* first replay leaves nothing behind that alters the second.              *)
(***************************************************************************)
\* the figures of a position the claim lists
PositionValues(pos) ==
    [shares |-> shares(pos), open_lots |-> pos.open_lots,
     closed_lots |-> pos.closed_lots,
     total_investment_sgd |-> total_investment_sgd(pos),
     realized_pnl_sgd |-> realized_pnl_sgd(pos),
     unrealized_pnl_sgd |-> unrealized_pnl_sgd(pos)]

C24_SecondReplayIdentical ==
    perf_call.op = "replay" =>
        /\ Len(perf_call.positions) = Len(portfolio.positions)
        /\ \A i \in 1..Len(portfolio.positions) :
              /\ perf_call.positions[i].ticker = portfolio.positions[i].ticker
              /\ PositionValues(perf_call.positions[i].position)
                    = PositionValues(portfolio.positions[i].position)
              /\ perf_call.positions[i].position
                    = portfolio.positions[i].position

\* the second replay ran on the rates the first one cached, over a position
\* with an open lot, a closed lot and a dividend
C24_Witness ==
    /\ perf_call.op = "replay"
    /\ DOMAIN perf_call.cache_before # {}
    /\ \E i \in 1..Len(perf_call.positions) :
          /\ perf_call.positions[i].position.open_lots # <<>>
          /\ perf_call.positions[i].position.closed_lots # <<>>
          /\ perf_call.positions[i].position.dividend_records # <<>>

(***************************************************************************)
(* C25  The trading component of realized P&L in base currency is the      *)
(* native realized P&L converted at today's live FX rate                   *)
(* (realized_pnl_native x live_fx), not at the FX rates of the purchase or *)
(* sale dates; net dividends are added to it, each at the FX rate of its   *)
(* own ex-date.                                                            *)
(***************************************************************************)
\* (sell price - buy price) x quantity over the closed lots, in the native
\* currency
RealizedPnlNative(pos) ==
    SumSeq(pos.closed_lots,
           [c \in Range(pos.closed_lots) |->
               c.quantity * (c.sell_price_native - c.buy_price_native)])

\* the net dividends of the records, each at the rate of its own record
DividendsAtExDateFx(pos) ==
    SumSeq(pos.dividend_records,
           [r \in Range(pos.dividend_records) |-> r.net_native * r.fx_rate])

C25_RealizedTradingAtLiveFx ==
    portfolio.called =>
        \A i \in 1..Len(portfolio.positions) :
            /\ realized_pnl_from_trades_sgd(portfolio.positions[i].position)
                  = RealizedPnlNative(portfolio.positions[i].position)
                       * portfolio.positions[i].position.live_fx_rate
            /\ realized_pnl_sgd(portfolio.positions[i].position)
                  = RealizedPnlNative(portfolio.positions[i].position)
                       * portfolio.positions[i].position.live_fx_rate
                    + DividendsAtExDateFx(portfolio.positions[i].position)

(***************************************************************************)
(* C26  A failure while fetching or computing the dividends of one ticker  *)
(* is isolated: compute_portfolio still returns a position for every       *)
(* ticker of the table, the failing ticker's position has no dividend      *)
(* records and dividends_net_sgd = 0, and the positions of the other       *)
(* tickers are what they are when nothing fails.                           *)
(***************************************************************************)
\* the market with the failing dividend blocks answering an empty history
WithoutDividendFailure(market) ==
    [market EXCEPT
        !.dividends = [t \in Tickers |->
                          IF market.dividends[t].raises
                          THEN [raises |-> FALSE, history |-> <<>>]
                          ELSE market.dividends[t]]]

\* the positions compute_portfolio returns for the table when no dividend
\* block fails
UnfailedPositions ==
    compute_portfolio(db_transactions, EmptyCache, {},
                      WithoutDividendFailure(portfolio.market), Pairs).positions

StoredTickers == {row.ticker : row \in db_transactions}

C26_DividendFailureIsolated ==
    portfolio.called =>
        /\ {portfolio.positions[i].ticker : i \in 1..Len(portfolio.positions)}
              = StoredTickers
        /\ Len(portfolio.positions) = Cardinality(StoredTickers)
        /\ \A i \in 1..Len(portfolio.positions) :
              IF portfolio.market.dividends[portfolio.positions[i].ticker].raises
              THEN /\ portfolio.positions[i].position.dividend_records = <<>>
                   /\ portfolio.positions[i].position.dividends_net_sgd = 0
                   /\ portfolio.positions[i].position.open_lots
                         = UnfailedPositions[i].position.open_lots
                   /\ portfolio.positions[i].position.closed_lots
                         = UnfailedPositions[i].position.closed_lots
              ELSE portfolio.positions[i] = UnfailedPositions[i]

\* the dividend block of AAA raised while BBB was paid a dividend
C26_Witness ==
    /\ portfolio.called
    /\ Len(portfolio.positions) = 2
    /\ portfolio.market.dividends["AAA"].raises
    /\ ~portfolio.market.dividends["BBB"].raises
    /\ portfolio.positions[1].position.open_lots # <<>>
    /\ portfolio.positions[2].position.dividend_records # <<>>
    /\ portfolio.positions[2].position.dividends_net_sgd > 0

(***************************************************************************)
(* C27  When the live price fetch fails for a ticker, compute_portfolio    *)
(* does not raise and every market-derived figure of that position is      *)
(* zero: live_price = 0, current_value_sgd = 0 and unrealized_pnl_sgd = 0, *)
(* whatever number of shares is held.                                      *)
(***************************************************************************)
\* the live-price block raised, or get_live_price returned the price 0.0 of
\* its own failed fetch
PriceFetchFailed(answer) == answer.raises \/ answer.price = 0

C27_FailedPriceZeroesMarketFigures ==
    portfolio.called =>
        \A i \in 1..Len(portfolio.positions) :
            PriceFetchFailed(
                portfolio.market.price[portfolio.positions[i].ticker]) =>
                /\ portfolio.positions[i].position.live_price = 0
                /\ current_value_sgd(portfolio.positions[i].position) = 0
                /\ unrealized_pnl_sgd(portfolio.positions[i].position) = 0

(***************************************************************************)
(* C28  Accumulator/dividend consistency: for every ex-date, the           *)
(* shares_held used by calculate_dividends_received equals the shares that *)
(* compute_position reports after replaying the same ticker's transactions *)
(* dated on or before that ex-date, including histories that contain a     *)
(* SELL exceeding the shares held.                                         *)
(***************************************************************************)
RECURSIVE DatedOnOrBefore(_, _)
\* the transactions of a list dated on or before the day, in list order
DatedOnOrBefore(ts, day) ==
    IF ts = <<>> THEN <<>>
    ELSE (IF Head(ts).date <= day THEN <<Head(ts)>> ELSE <<>>)
         \o DatedOnOrBefore(Tail(ts), day)

\* the shares compute_position reports for the date-ascending transactions
\* up to the ex-date
PositionSharesOn(transactions, ex_date) ==
    shares(compute_position(
              DatedOnOrBefore(SortedByDate(transactions), ex_date)))

C28_DividendSharesMatchPosition ==
    div_input.called =>
        \A i \in 1..Len(div_input.dividend_history) :
            LET ex_date == div_input.dividend_history[i][1]
            IN IF ex_date \in RecordedExDates
               THEN \A k \in 1..Len(div_result.records) :
                       div_result.records[k].ex_date = ex_date =>
                          div_result.records[k].shares_held
                             = PositionSharesOn(div_input.transactions, ex_date)
               ELSE PositionSharesOn(div_input.transactions, ex_date) = 0

(***************************************************************************)
(* C29  The last-resort fallback value 1.0 is never written to the         *)
(* permanent FX cache: every rate stored under (date, from, to) by         *)
(* get_fx_rate is a rate obtained from the external source or the product  *)
(* of two such rates, so a transient source failure cannot make a later    *)
(* call return 1.0 from the cache.                                         *)
(***************************************************************************)
\* the closes the source can quote for a pair
SourceRates(from, to) == {SourceClose(from, to, day) : day \in FxDays}

\* the products of a close of from->USD and a close of USD->to
TriangulatedSourceRates(from, to) ==
    IF from = "USD" \/ to = "USD" THEN {}
    ELSE {a * b : a \in SourceRates(from, "USD"), b \in SourceRates("USD", to)}

C29_FallbackNeverCached ==
    \A k \in DOMAIN fx_rate_cache :
        /\ fx_rate_cache[k] # 1
        /\ fx_rate_cache[k] \in SourceRates(k[2], k[3])
                                   \cup TriangulatedSourceRates(k[2], k[3])

(***************************************************************************)
(* C30  compute_position is strict FIFO: each SELL consumes open lots      *)
(* oldest-first; after every replay step the open lots are in ascending    *)
(* buy-date order and each has quantity > 0; every closed lot has          *)
(* buy_date <= sell_date and carries the buy price and buy FX rate of the  *)
(* lot it was taken from; and the transaction records are not modified:   *)
(* replaying the recorded list from the start gives the same position.     *)
(***************************************************************************)
RECURSIVE BoughtLots(_)
\* one lot per BUY of the list, in list order, with the quantity bought
BoughtLots(ts) ==
    IF ts = <<>> THEN <<>>
    ELSE (IF Head(ts).side = "BUY"
          THEN <<[date |-> Head(ts).date, quantity |-> Head(ts).quantity,
                  price_native |-> Head(ts).price,
                  fx_rate_to_sgd |-> Head(ts).effective_fx_rate]>>
          ELSE <<>>)
         \o BoughtLots(Tail(ts))

\* the closed lot is a part of the lot: same buy date, price and FX rate
TakenFrom(closed, lot) ==
    /\ closed.buy_date = lot.date
    /\ closed.buy_price_native = lot.price_native
    /\ closed.buy_fx_rate = lot.fx_rate_to_sgd
    /\ closed.quantity > 0
    /\ closed.quantity <= lot.quantity

RECURSIVE OldestFirst(_, _)
\* take the closed lots, in the order they were closed, off the front of
\* the bought lots: whether each is a part of the oldest lot then left, and
\* the lots left at the end
OldestFirst(lots, closed) ==
    IF closed = <<>> THEN [fifo |-> TRUE, left |-> lots]
    ELSE IF lots = <<>> THEN [fifo |-> FALSE, left |-> <<>>]
    ELSE IF ~TakenFrom(Head(closed), Head(lots))
    THEN [fifo |-> FALSE, left |-> lots]
    ELSE IF Head(closed).quantity = Head(lots).quantity
    THEN OldestFirst(Tail(lots), Tail(closed))
    ELSE OldestFirst(
            <<[Head(lots) EXCEPT !.quantity = @ - Head(closed).quantity]>>
               \o Tail(lots),
            Tail(closed))

\* the sale recorded in the closed lot is a SELL of the list
SoldBy(closed, ts) ==
    \E i \in 1..Len(ts) :
        /\ ts[i].side = "SELL"
        /\ ts[i].date = closed.sell_date
        /\ ts[i].price = closed.sell_price_native
        /\ ts[i].effective_fx_rate = closed.sell_fx_rate

FifoLeaves(consumed, open_lots) ==
    /\ consumed.fifo
    /\ consumed.left = open_lots

C30_StrictFifo ==
    /\ FifoLeaves(OldestFirst(BoughtLots(txns), position.closed_lots),
                  position.open_lots)
    /\ \A i, j \in 1..Len(position.open_lots) :
          i < j => position.open_lots[i].date <= position.open_lots[j].date
    /\ \A i \in 1..Len(position.open_lots) :
          position.open_lots[i].quantity > 0
    /\ \A i \in 1..Len(position.closed_lots) :
          /\ position.closed_lots[i].buy_date
                <= position.closed_lots[i].sell_date
          /\ SoldBy(position.closed_lots[i], txns)
    /\ position = compute_position(txns)

\* one SELL closed the whole oldest lot and a part of the next one, bought
\* at another price, the rest of which is still open
C30_Witness ==
    /\ Len(position.closed_lots) = 2
    /\ Len(position.open_lots) = 1
    /\ position.closed_lots[1].buy_price_native
          # position.closed_lots[2].buy_price_native
    /\ position.closed_lots[1].buy_date < position.closed_lots[2].buy_date
    /\ position.closed_lots[1].sell_date = position.closed_lots[2].sell_date
    /\ position.closed_lots[2].buy_date = position.open_lots[1].date
    /\ position.closed_lots[2].buy_price_native
          = position.open_lots[1].price_native

====
